---- MODULE Spec2Model ----
(***************************************************************************)
(* Snow-stake measurement engine of snowcammeasurement:                    *)
(*   - WinterParkMeasurer  (src/resorts/winter_park/measurer.py)           *)
(*   - SnowStakeMeasurer   (src/snowcammeasurement/measurement.py)         *)
(*                                                                         *)
(* Pixel rows are integers.  Depths are Python floats in the source; here  *)
(* they are exact rationals <<n, d>> in lowest terms with d >= 1.          *)
(* None is the value NoneD (depth) or NoneY (row).  An exception raised    *)
(* by a conversion is the value Raised.                                    *)
(*                                                                         *)
(* What the image processing (OpenCV, gradient scan) finds in a scan       *)
(* column is an input: for every sample the image decides whether a        *)
(* transition is found and at which row.                                   *)
(***************************************************************************)
EXTENDS Integers, Sequences, FiniteSets, TLC

VARIABLES
    cMeasurer,   \* conversion harness: "WP" or "SS"
    cMarkers,    \* conversion harness: sorted marker list <<inch, row>>
    cY1, cY2,    \* conversion harness: two pixel rows, cY1 <= cY2
    cD1, cD2,    \* conversion harness: y_to_inches of cY1 and of cY2
    cPc,         \* conversion harness: "idle", "ready" or "done"
    measurer,    \* measurement call: "WP", "SS" or "none"
    calibration, \* measurement call: the calibration record of the measurer
    image,       \* measurement call: what the image shows in each scan column
    samples,     \* sample list as the per-sample loop leaves it
    snow_line_y, \* measure(): the row the sample aggregator returned (NoneY before)
    result,      \* the returned measurement (NoResult before the return)
    instance,    \* the SnowStakeMeasurer object's fields as earlier calls left them
    previous,    \* the result of the previous call for the same image and calibration
    call,        \* "first", "again" (same object) or "other" (a new object)
    pc,          \* measurement call: "idle", "ready", "detected" or "done"
    resort_config, \* process_resort: enabled, dry_run, whether get_measurer loads
    new_images,  \* process_resort: what measuring each new image does
    img_index,   \* process_resort: index of the loop's next image (1-based)
    attempted,   \* process_resort: indices measure_image was called for
    inserted,    \* process_resort: indices with a row in snow_measurements
    prPc,        \* process_resort: "idle", "start", "loop" or "returned"
    snow_measurements,    \* SnowDatabase: rows of table snow_measurements
    measurement_samples,  \* SnowDatabase: measurement_id of the sample rows
    lastrowid,            \* SnowDatabase: the AUTOINCREMENT id given last
    last_call,            \* SnowDatabase: the last insert_measurement call
    calibration_versions, \* SnowDatabase: rows of table calibration_versions
    version_id,           \* SnowDatabase: the calibration_versions id given last
    lookup,               \* get_calibration_for_timestamp: arguments and answer
    column,        \* gradient pass: the smoothed column of one sample
    snow_line_idx, \* gradient pass: the accepted row index (-1 for None)
    scanPc,        \* gradient pass: "idle", "scan", "found" or "fallback"
    image_files,   \* find_hourly_images: the .jpg files of the resort directory
    hourly_images, \* find_hourly_images: the returned list
    hourlyPc       \* find_hourly_images: "idle", "start", "found" or "done"

convVars == <<cMeasurer, cMarkers, cY1, cY2, cD1, cD2, cPc>>
measVars == <<measurer, calibration, image, samples, snow_line_y, result,
              instance, previous, call, pc>>
driverVars == <<resort_config, new_images, img_index, attempted, inserted, prPc>>
storeVars == <<snow_measurements, measurement_samples, lastrowid, last_call>>
versionVars == <<calibration_versions, version_id, lookup>>
scanVars == <<column, snow_line_idx, scanPc>>
hourlyVars == <<image_files, hourly_images, hourlyPc>>
dbVars == <<driverVars, storeVars, versionVars, scanVars, hourlyVars>>
vars == <<cMeasurer, cMarkers, cY1, cY2, cD1, cD2, cPc,
          measurer, calibration, image, samples, snow_line_y, result,
          instance, previous, call, pc,
          resort_config, new_images, img_index, attempted, inserted, prPc,
          snow_measurements, measurement_samples, lastrowid, last_call,
          calibration_versions, version_id, lookup,
          column, snow_line_idx, scanPc,
          image_files, hourly_images, hourlyPc>>

\* The cron driver and the database are not part of a measurement call.
DriverIdle ==
    /\ resort_config = <<>>
    /\ new_images = <<>>
    /\ img_index = 0
    /\ attempted = {}
    /\ inserted = {}
    /\ prPc = "idle"

StoreIdle ==
    /\ snow_measurements = {}
    /\ measurement_samples = {}
    /\ lastrowid = 0
    /\ last_call = <<>>

VersionsIdle ==
    /\ calibration_versions = {}
    /\ version_id = 0
    /\ lookup = <<>>

NoColumn == [column_height |-> 0, steep |-> {}, changed |-> {}, snow_below |-> {}]

ScanIdle ==
    /\ column = NoColumn
    /\ snow_line_idx = -1
    /\ scanPc = "idle"

HourlyIdle ==
    /\ image_files = {}
    /\ hourly_images = <<>>
    /\ hourlyPc = "idle"

DbIdle == DriverIdle /\ StoreIdle /\ VersionsIdle /\ ScanIdle /\ HourlyIdle

----------------------------------------------------------------------------
(* Exact rational arithmetic standing for the float arithmetic.            *)

NoneD == <<0, 0>>
Raised == <<1, 0>>
NoneY == -1

Abs(n) == IF n < 0 THEN -n ELSE n

RECURSIVE Gcd(_, _)
Gcd(a, b) == IF b = 0 THEN a ELSE Gcd(b, a % b)

Rat(n, d) ==
    LET s == IF d < 0 THEN -1 ELSE 1
        g == Gcd(Abs(n), Abs(d))
    IN  <<(s * n) \div g, (s * d) \div g>>

IsNum(q) == q[2] >= 1
RatInt(k) == <<k, 1>>
RatAdd(p, q) == Rat(p[1] * q[2] + q[1] * p[2], p[2] * q[2])
RatSub(p, q) == Rat(p[1] * q[2] - q[1] * p[2], p[2] * q[2])
RatMul(p, q) == Rat(p[1] * q[1], p[2] * q[2])
RatDivInt(p, k) == Rat(p[1], p[2] * k)
RatLt(p, q) == p[1] * q[2] < q[1] * p[2]
RatLe(p, q) == p[1] * q[2] <= q[1] * p[2]

\* Python int(): truncation toward zero of n/d, d > 0.
Trunc(n, d) == IF n >= 0 THEN n \div d ELSE -((-n) \div d)

----------------------------------------------------------------------------
(* Depth conversion.  M is sorted_markers: a sequence of <<inch, row>>     *)
(* sorted ascending by inch value.                                         *)

\* The for-loop of y_to_inches: the first index whose marker row is >= y,
\* or 0 when the loop ends without a break.
FirstAtOrBelow(M, y) ==
    LET I == {i \in 1..Len(M) : M[i][2] >= y}
    IN  IF I = {} THEN 0 ELSE CHOOSE i \in I : \A j \in I : i <= j

\* lower_marker / upper_marker as the loop leaves them.
BracketLower(M, y) ==
    LET i == FirstAtOrBelow(M, y) IN IF i = 0 THEN M[1] ELSE M[i]

BracketUpper(M, y) ==
    LET i == FirstAtOrBelow(M, y)
    IN  IF i # 0 /\ i + 1 <= Len(M) THEN M[i + 1] ELSE M[Len(M)]

\* The interpolation tail shared by both measurers.
Interpolate(M, y) ==
    LET lo == BracketLower(M, y)
        hi == BracketUpper(M, y)
    IN  IF lo[2] = hi[2] THEN RatInt(lo[1])
        ELSE RatAdd(RatInt(lo[1]),
                    Rat((lo[2] - y) * (hi[1] - lo[1]), lo[2] - hi[2]))

\* inch2 + (y2 - y) / ((y1 - y2) / (inch2 - inch1))
Extrapolate(m1, m2, y) ==
    RatAdd(RatInt(m2[1]), Rat((m2[2] - y) * (m2[1] - m1[1]), m1[2] - m2[2]))

WP_y_to_inches(M, y) ==
    IF y <= M[Len(M)][2]
    THEN IF Len(M) < 2 THEN Raised                       \* sorted_markers[-2]
         ELSE IF M[Len(M) - 1][2] = M[Len(M)][2] THEN Raised   \* x / 0.0
         ELSE Extrapolate(M[Len(M) - 1], M[Len(M)], y)
    ELSE IF y >= M[1][2] THEN RatInt(0)
    ELSE Interpolate(M, y)

\* marker_positions.get('0') or marker_positions.get(0), else the first row.
SS_ref_y(M) ==
    IF \E i \in 1..Len(M) : M[i][1] = 0
    THEN M[CHOOSE i \in 1..Len(M) : M[i][1] = 0][2]
    ELSE M[1][2]

SS_marker_y_to_inches(M, y) ==
    IF y >= SS_ref_y(M) THEN RatInt(0)
    ELSE IF y <= M[Len(M)][2]
    THEN IF Len(M) >= 2 /\ M[Len(M) - 1][2] # M[Len(M)][2]
         THEN Extrapolate(M[Len(M) - 1], M[Len(M)], y)
         ELSE RatInt(M[Len(M)][1])
    ELSE Interpolate(M, y)

----------------------------------------------------------------------------
(* Conversion harness: the two converters applied to bounded marker sets.  *)

MaxMarkers == 4
MaxGap == 2
BaseRow == MaxMarkers * MaxGap

\* Marker sets for inches 0, 2, 4, ... with strictly decreasing rows.
RECURSIVE MarkersFrom(_, _, _)
MarkersFrom(inch, row, gaps) ==
    IF gaps = <<>> THEN <<<<inch, row>>>>
    ELSE <<<<inch, row>>>> \o MarkersFrom(inch + 2, row - Head(gaps), Tail(gaps))

GapSeqs == UNION {[1..k -> 1..MaxGap] : k \in 1..(MaxMarkers - 1)}
MarkerSets == {MarkersFrom(0, BaseRow, g) : g \in GapSeqs}
ConvRows == 0..(BaseRow + 1)

ConvApply(which, M, y) ==
    IF which = "WP" THEN WP_y_to_inches(M, y) ELSE SS_marker_y_to_inches(M, y)

ConvInit ==
    /\ DbIdle
    /\ cMeasurer \in {"WP", "SS"}
    /\ cMarkers \in MarkerSets
    /\ cY1 \in ConvRows
    /\ cY2 \in {y \in ConvRows : cY1 <= y}
    /\ cD1 = NoneD
    /\ cD2 = NoneD
    /\ cPc = "ready"
    /\ measurer = "none"
    /\ calibration = <<>>
    /\ image = <<>>
    /\ samples = <<>>
    /\ snow_line_y = NoneY
    /\ result = <<>>
    /\ instance = <<>>
    /\ previous = <<>>
    /\ call = "none"
    /\ pc = "idle"

Convert ==
    /\ cPc = "ready"
    /\ cD1' = ConvApply(cMeasurer, cMarkers, cY1)
    /\ cD2' = ConvApply(cMeasurer, cMarkers, cY2)
    /\ cPc' = "done"
    /\ UNCHANGED <<cMeasurer, cMarkers, cY1, cY2>>
    /\ UNCHANGED <<measVars, dbVars>>

ConvNext == Convert
SpecConv == ConvInit /\ [][ConvNext]_vars

----------------------------------------------------------------------------
(* Degenerate marker sets: a single marker, or the top two markers on the  *)
(* same pixel row.                                                         *)

SingleMarkerSets == {<<<<inch, row>>>> : inch \in {0, 2}, row \in 1..BaseRow}

TopTieSets ==
    {MarkersFrom(0, BaseRow, g \o <<0>>) :
        g \in {<<>>} \cup UNION {[1..k -> 1..MaxGap] : k \in 1..(MaxMarkers - 2)}}

DegenerateSets == SingleMarkerSets \cup TopTieSets

DegenInit ==
    /\ DbIdle
    /\ cMeasurer \in {"WP", "SS"}
    /\ cMarkers \in MarkerSets \cup DegenerateSets
    /\ cY1 \in ConvRows
    /\ cY2 \in {y \in ConvRows : cY1 <= y}
    /\ cD1 = NoneD
    /\ cD2 = NoneD
    /\ cPc = "ready"
    /\ measurer = "none"
    /\ calibration = <<>>
    /\ image = <<>>
    /\ samples = <<>>
    /\ snow_line_y = NoneY
    /\ result = <<>>
    /\ instance = <<>>
    /\ previous = <<>>
    /\ call = "none"
    /\ pc = "idle"

SpecDegenerate == DegenInit /\ [][ConvNext]_vars

----------------------------------------------------------------------------
(* Claims about the depth conversion, checked under SpecConv.              *)

\* The interpolation between the two consecutive markers i, i+1 with
\* row[i+1] < y <= row[i].
AdjacentInterpolation(M, y) ==
    LET i == CHOOSE k \in 1..(Len(M) - 1) : M[k + 1][2] < y /\ y <= M[k][2]
    IN  RatAdd(RatInt(M[i][1]),
               Rat((M[i][2] - y) * (M[i + 1][1] - M[i][1]), M[i][2] - M[i + 1][2]))

StrictlyInside(M, y) == M[Len(M)][2] < y /\ y < M[1][2]

\* C1: for a row strictly between the top marker's row and the 0-inch
\* marker's row, y_to_inches (of both measurers) is the linear interpolation
\* between the two adjacent markers that bracket the row.
C1_AdjacentBracket ==
    (cPc = "done" /\ StrictlyInside(cMarkers, cY1))
        => cD1 = AdjacentInterpolation(cMarkers, cY1)

\* C2: y_to_inches is monotone: for rows y1 < y2 the depth of y1 is at least
\* the depth of y2, across all branches of the conversion.
C2_Monotone ==
    (cPc = "done" /\ cY1 < cY2) => RatLe(cD2, cD1)

\* C3: y_to_inches is exact at every marker: the row of the marker for k
\* inches converts to exactly k.
C3_ExactAtMarker ==
    cPc = "done" =>
        \A i \in 1..Len(cMarkers) :
            cY1 = cMarkers[i][2] => cD1 = RatInt(cMarkers[i][1])

----------------------------------------------------------------------------
(* Samples.  A sample is the dict built in the per-sample loop; keys that   *)
(* the code adds later (at_base, iqr_outlier, shallow_excluded) are FALSE   *)
(* while absent.                                                            *)

NumSamples == 10
NoReason == "None"

NewSample(idx, x, base) ==
    [sample_index |-> idx, x_position |-> x, base_y |-> base,
     snow_line_y |-> NoneY, depth_inches |-> NoneD, valid |-> FALSE,
     skip_reason |-> NoReason, at_base |-> FALSE, iqr_outlier |-> FALSE,
     shallow_excluded |-> FALSE]

\* Sample idx (0-based, as in the code) of a sample list.
At(list, idx) == list[idx + 1]

\* np.linspace(a, b, num_samples, dtype=int)[idx]
Linspace(a, b, idx) == Trunc(a * (NumSamples - 1) + idx * (b - a), NumSamples - 1)

----------------------------------------------------------------------------
(* WinterParkMeasurer: sampling geometry and the per-sample loop of         *)
(* detect_snow_line.                                                        *)

WP_BaseThreshold == 15

\* marker_positions.get(k, default)
MarkerGet(M, k, default) ==
    IF \E i \in 1..Len(M) : M[i][1] = k
    THEN M[CHOOSE i \in 1..Len(M) : M[i][1] = k][2]
    ELSE default

WP_scan_top_y(cal) == cal.stake_region[2]
WP_base_y(cal) == MarkerGet(cal.markers, 0, cal.stake_region[2] + cal.stake_region[4])

\* int(full_width * 0.175)
WP_margin(cal) ==
    Trunc((cal.sample_bounds.br[1] - cal.sample_bounds.bl[1]) * 175, 1000)

WP_sample_x(cal, idx) ==
    IF cal.has_sample_bounds
    THEN Linspace(cal.sample_bounds.bl[1] + WP_margin(cal),
                  cal.sample_bounds.br[1] - WP_margin(cal), idx)
    ELSE Linspace(cal.stake_region[1] + 5,
                  cal.stake_region[1] + cal.stake_region[3] - 5, idx)

\* tilt_ratio = axis_dx / axis_dy (0 without an axis or with axis_dy = 0),
\* as the rational <<dx, dy>>.
WP_tilt_ratio(cal) ==
    IF cal.has_axis /\ cal.axis_bottom[2] # cal.axis_top[2]
    THEN Rat(cal.axis_bottom[1] - cal.axis_top[1], cal.axis_bottom[2] - cal.axis_top[2])
    ELSE RatInt(0)

\* 2 * axis_center_x
WP_axis_center_x2(cal) ==
    IF cal.has_axis THEN cal.axis_top[1] + cal.axis_bottom[1]
    ELSE 2 * cal.centerline_x

\* The same with the two clamps applied in the other order:
\* min(img_h - 1, max(scan_top_y + 10, sample_base_y)).
WP_sample_base_y_min_last(cal, img, idx) ==
    LET t == WP_tilt_ratio(cal)
        off2 == 2 * WP_sample_x(cal, idx) - WP_axis_center_x2(cal)
        raw == Trunc(WP_base_y(cal) * 2 * t[2] - off2 * t[1], 2 * t[2])
        lo == WP_scan_top_y(cal) + 10
        raised == IF lo > raw THEN lo ELSE raw
    IN  IF img.height - 1 < raised THEN img.height - 1 ELSE raised

\* int(base_y - x_offset_from_axis * tilt_ratio), then clamped.
WP_sample_base_y(cal, img, idx) ==
    LET t == WP_tilt_ratio(cal)
        off2 == 2 * WP_sample_x(cal, idx) - WP_axis_center_x2(cal)
        raw == Trunc(WP_base_y(cal) * 2 * t[2] - off2 * t[1], 2 * t[2])
        lo == WP_scan_top_y(cal) + 10
        capped == IF img.height - 1 < raw THEN img.height - 1 ELSE raw
    IN  IF lo > capped THEN lo ELSE capped

\* Interpolated edges of the sample_bounds quadrilateral at sample idx.
WP_sample_top_y_at_x(cal, idx) ==
    IF cal.has_sample_bounds
    THEN Trunc(cal.sample_bounds.tl[2] * (NumSamples - 1)
               + idx * (cal.sample_bounds.tr[2] - cal.sample_bounds.tl[2]),
               NumSamples - 1)
    ELSE WP_scan_top_y(cal)

WP_sample_bottom_y_at_x(cal, idx) ==
    IF cal.has_sample_bounds
    THEN Trunc(cal.sample_bounds.bl[2] * (NumSamples - 1)
               + idx * (cal.sample_bounds.br[2] - cal.sample_bounds.bl[2]),
               NumSamples - 1)
    ELSE WP_base_y(cal)

\* Both scan passes of one column: the row of the accepted transition, or
\* NoneY.  The image decides; only rows inside the scanned column
\* [scan_top_y, sample_base_y) can be found.
WP_find_transition(cal, img, idx) ==
    LET r == img.rows[idx + 1]
    IN  IF r >= WP_scan_top_y(cal) /\ r < WP_sample_base_y(cal, img, idx)
        THEN r ELSE NoneY

\* One iteration of the per-sample loop.
WP_sample(cal, img, idx) ==
    LET s0 == NewSample(idx, WP_sample_x(cal, idx), WP_sample_base_y(cal, img, idx))
        row == WP_find_transition(cal, img, idx)
        top == WP_sample_top_y_at_x(cal, idx)
        bottom == WP_sample_bottom_y_at_x(cal, idx)
        at_sample_base == row >= bottom - WP_BaseThreshold
        at_zero_marker == row >= WP_base_y(cal) - WP_BaseThreshold
        s1 == [s0 EXCEPT !.snow_line_y = row,
                         !.depth_inches = WP_y_to_inches(cal.markers, row)]
    IN  IF s0.base_y - WP_scan_top_y(cal) < 10
        THEN [s0 EXCEPT !.skip_reason = "column_too_short"]
        ELSE IF row = NoneY
        THEN [s0 EXCEPT !.skip_reason = "no_transition_found"]
        ELSE IF at_sample_base \/ at_zero_marker
        THEN [s1 EXCEPT !.skip_reason = "at_base", !.depth_inches = RatInt(0)]
        ELSE IF /\ row >= top
                /\ bottom - top > 0
                /\ (bottom - row) * 100 > 92 * (bottom - top)
        THEN [s1 EXCEPT !.skip_reason = "at_base"]
        ELSE [s1 EXCEPT !.valid = TRUE]

WP_detect_samples(cal, img) == [i \in 1..NumSamples |-> WP_sample(cal, img, i - 1)]


----------------------------------------------------------------------------
(* Order statistics of a list of rows (np.percentile with linear            *)
(* interpolation, np.median).  Values are kept scaled by 4 or 8 so that     *)
(* they stay integers.                                                      *)

MinIqr == 10

\* The k-th smallest element (k = 0 is the smallest) of the sequence c.
KthSmallest(c, k) ==
    CHOOSE v \in {c[i] : i \in 1..Len(c)} :
        /\ Cardinality({i \in 1..Len(c) : c[i] < v}) <= k
        /\ Cardinality({i \in 1..Len(c) : c[i] <= v}) > k

\* 4 * np.percentile(c, 25 * quarters): position quarters*(n-1)/4.
Percentile4(c, quarters) ==
    LET pos4 == quarters * (Len(c) - 1)
        lo == pos4 \div 4
        fr == pos4 % 4
    IN  IF fr = 0 THEN 4 * KthSmallest(c, lo)
        ELSE (4 - fr) * KthSmallest(c, lo) + fr * KthSmallest(c, lo + 1)

\* 4 * max(q3 - q1, 10)
EffectiveIqr4(c) ==
    LET iqr4 == Percentile4(c, 3) - Percentile4(c, 1)
    IN  IF iqr4 > 4 * MinIqr THEN iqr4 ELSE 4 * MinIqr

\* Bounds at the quartiles themselves: <<8 * q1, 8 * q3>> (not the code's).
Bounds8_quartiles(c) == <<2 * Percentile4(c, 1), 2 * Percentile4(c, 3)>>

\* <<8 * lower_bound, 8 * upper_bound>>  (q1 - 1.5 * iqr, q3 + 1.5 * iqr)
Bounds8(c) ==
    <<2 * Percentile4(c, 1) - 3 * EffectiveIqr4(c),
      2 * Percentile4(c, 3) + 3 * EffectiveIqr4(c)>>

\* y < lower_bound or y > upper_bound, for b = Bounds8(candidates)
OutOfBounds(b, y) == 8 * y < b[1] \/ 8 * y > b[2]

\* int(np.median(c)) for a non-empty list of non-negative rows.
MedianInt(c) ==
    LET n == Len(c)
    IN  IF n % 2 = 1 THEN KthSmallest(c, n \div 2)
        ELSE Trunc(KthSmallest(c, n \div 2 - 1) + KthSmallest(c, n \div 2), 2)

\* The subsequence of the elements of list that satisfy Test, in order.
SelectIdx(list, Test(_)) ==
    LET F[i \in 0..Len(list)] ==
            IF i = 0 THEN <<>>
            ELSE IF Test(list[i]) THEN Append(F[i - 1], list[i]) ELSE F[i - 1]
    IN  F[Len(list)]

RowsOf(list) == [i \in 1..Len(list) |-> list[i].snow_line_y]
DepthsOf(list) == [i \in 1..Len(list) |-> list[i].depth_inches]

\* The value of the one-element set S (binds a computed value once).
Only(S) == CHOOSE x \in S : TRUE

\* candidates[(candidates >= lower_bound) & (candidates <= upper_bound)]
Filtered(c, b) ==
    LET In(y) == ~OutOfBounds(b, y) IN SelectIdx(c, In)

\* The median returned after filtering.
FilteredMedian(c, b) ==
    Only({ IF Len(f) >= 2 THEN MedianInt(f) ELSE MedianInt(c) : f \in {Filtered(c, b)} })

----------------------------------------------------------------------------
(* WinterParkMeasurer: the aggregation at the end of detect_snow_line.      *)

WP_MinValid == 3

\* valid_snow_lines
WP_candidates(list) ==
    LET Ok(s) == s.valid /\ s.snow_line_y # NoneY
    IN  RowsOf(SelectIdx(list, Ok))

\* A marking that overwrites an existing skip reason (not the code's).
WP_mark_outlier_unguarded(b, s) ==
    IF s.snow_line_y # NoneY /\ OutOfBounds(b, s.snow_line_y)
    THEN [s EXCEPT !.valid = FALSE, !.skip_reason = "iqr_outlier"]
    ELSE s

\* Mark outliers (but don't overwrite existing skip reasons like at_base)
WP_mark_outlier(b, s) ==
    IF /\ s.snow_line_y # NoneY
       /\ s.skip_reason = NoReason
       /\ OutOfBounds(b, s.snow_line_y)
    THEN [s EXCEPT !.valid = FALSE, !.skip_reason = "iqr_outlier"]
    ELSE s

\* An aggregation without outlier rejection (not the code's).
WP_filter_none(list, c, b) == <<MedianInt(c), list>>

\* The IQR step for the candidate rows c with bounds b.
WP_filter(list, c, b) ==
    <<FilteredMedian(c, b), [i \in 1..Len(list) |-> WP_mark_outlier(b, list[i])]>>

\* An aggregation that accepts two valid samples (not the code's).
WP_aggregate_two(list) ==
    Only({ IF Len(c) < 2 THEN <<NoneY, list>>
           ELSE Only({ WP_filter(list, c, b) : b \in {Bounds8(c)} })
           : c \in {WP_candidates(list)} })

\* detect_snow_line's return value <<median_y, samples>>, given the list
\* the per-sample loop produced.
WP_aggregate(list) ==
    Only({ IF Len(c) < WP_MinValid THEN <<NoneY, list>>
           ELSE Only({ WP_filter(list, c, b) : b \in {Bounds8(c)} })
           : c \in {WP_candidates(list)} })

----------------------------------------------------------------------------
(* WinterParkMeasurer.measure.  Confidence is kept in tenths.               *)

NoResult == [status |-> "none"]
RaisedResult == [status |-> "raised"]

Returned(depth, conf10, visible, line, has_samples, list, dmin, dmax, davg, notes) ==
    [status |-> "returned", snow_depth_inches |-> depth, confidence10 |-> conf10,
     stake_visible |-> visible, snow_line_y |-> line,
     has_samples |-> has_samples, samples |-> list,
     depth_min |-> dmin, depth_max |-> dmax, depth_avg |-> davg, notes |-> notes]

RECURSIVE RatSum(_)
RatSum(q) == IF q = <<>> THEN RatInt(0) ELSE RatAdd(Head(q), RatSum(Tail(q)))

RatMin(q) == CHOOSE v \in {q[i] : i \in 1..Len(q)} : \A j \in 1..Len(q) : RatLe(v, q[j])
RatMax(q) == CHOOSE v \in {q[i] : i \in 1..Len(q)} : \A j \in 1..Len(q) : RatLe(q[j], v)
RatMean(q) == RatDivInt(RatSum(q), Len(q))

\* [s['depth_inches'] for s in samples if s.get('valid') and depth is not None]
ValidDepths(list) ==
    LET Ok(s) == s.valid /\ s.depth_inches # NoneD
    IN  DepthsOf(SelectIdx(list, Ok))

DepthMin(list) == IF ValidDepths(list) = <<>> THEN NoneD ELSE RatMin(ValidDepths(list))
DepthMax(list) == IF ValidDepths(list) = <<>> THEN NoneD ELSE RatMax(ValidDepths(list))
DepthAvg(list) == IF ValidDepths(list) = <<>> THEN NoneD ELSE RatMean(ValidDepths(list))

\* A Python float used as a condition: None and 0.0 are false.
Truthy(q) == q # NoneD /\ q[1] # 0

\* int((base_y - two_inch_y) * 0.9)
WP_base_threshold_pixels(cal) ==
    LET base == MarkerGet(cal.markers, 0, 1000)
        two == MarkerGet(cal.markers, 2, base - 55)
    IN  Trunc((base - two) * 9, 10)

\* The row from which the median counts as "at or near the base".
WP_base_zone_y(cal) == MarkerGet(cal.markers, 0, 1000) - WP_base_threshold_pixels(cal)

\* The loop over the samples inside the base override.
WP_clamp_sample(cal, s) ==
    IF s.snow_line_y # NoneY /\ s.snow_line_y # 0 /\ s.snow_line_y >= WP_base_zone_y(cal)
    THEN [s EXCEPT !.at_base = TRUE, !.depth_inches = RatInt(0),
                   !.snow_line_y = MarkerGet(cal.markers, 0, 1000)]
    ELSE s

\* Apply minimum threshold (but keep 0.0 as valid "no snow" reading)
WP_apply_threshold(cal, depth) ==
    IF depth # NoneD /\ RatLt(RatInt(0), depth) /\ RatLt(depth, cal.min_depth_threshold)
    THEN NoneD ELSE depth

WP_confidence10(list) ==
    LET n == Len(ValidDepths(list))
    IN  5 + (IF n >= 5 THEN 2 ELSE 0) + (IF n >= 8 THEN 1 ELSE 0)
          + (IF /\ Truthy(DepthMax(list)) /\ Truthy(DepthMin(list))
                /\ RatLt(RatSub(DepthMax(list), DepthMin(list)), RatInt(2))
             THEN 2 ELSE 0)

\* The depth measure() derives from the median row, before the overrides.
WP_snow_depth(cal, median_y) == WP_y_to_inches(cal.markers, median_y)

\* snow_depth after the base override, before the minimum threshold.
WP_clamped_depth(cal, median_y) ==
    IF median_y >= WP_base_zone_y(cal) THEN RatInt(0) ELSE WP_snow_depth(cal, median_y)

\* measure() from the return of detect_snow_line on.
WP_measure_rest(cal, median_y, marked) ==
    LET clamp == median_y >= WP_base_zone_y(cal)
        depth == WP_clamped_depth(cal, median_y)
        line == IF clamp THEN MarkerGet(cal.markers, 0, 1000) ELSE median_y
        final == IF clamp
                 THEN [i \in 1..Len(marked) |-> WP_clamp_sample(cal, marked[i])]
                 ELSE marked
        conf == WP_confidence10(marked)
    IN  IF median_y = NoneY
        THEN Returned(NoneD, 3, TRUE, NoneY, TRUE, marked, NoneD, NoneD, NoneD,
                      "Could not detect snow line")
        ELSE IF WP_snow_depth(cal, median_y) = Raised THEN RaisedResult
        ELSE Returned(WP_apply_threshold(cal, depth),
                      IF conf > 10 THEN 10 ELSE conf, TRUE, line, TRUE, final,
                      DepthMin(marked), DepthMax(marked), DepthAvg(marked), "")

\* y_to_inches raised inside the per-sample loop.
WP_raised(list) == \E i \in 1..Len(list) : list[i].depth_inches = Raised

\* is_grayscale_image: the mean |R - B| over the central patch (in tenths)
\* is below 5.0.
WP_GrayLimit10 == 50
WP_is_grayscale_image(img) == img.rb_diff10 < WP_GrayLimit10

\* measure_from_file: the image file is missing or cannot be decoded.
\* Alternative: an unreadable file reported like a skipped night image
\* (stake_visible stays True).
WP_unreadable_stake_visible(file) ==
    Returned(NoneD, 0, TRUE, NoneY, FALSE, <<>>, NoneD, NoneD, NoneD,
             IF file = "missing" THEN "Image not found" ELSE "Failed to load image")

WP_unreadable_result(file) ==
    Returned(NoneD, 0, FALSE, NoneY, FALSE, <<>>, NoneD, NoneD, NoneD,
             IF file = "missing" THEN "Image not found" ELSE "Failed to load image")

WP_gray_result ==
    Returned(NoneD, 0, TRUE, NoneY, FALSE, <<>>, NoneD, NoneD, NoneD,
             "Skipped: grayscale/night image")


----------------------------------------------------------------------------
(* SnowStakeMeasurer: the measurer object and measure_from_file's           *)
(* application of a calibration.  Absent dict keys are has_* = FALSE.       *)

NoQuad == [tl |-> <<0, 0>>, tr |-> <<0, 0>>, bl |-> <<0, 0>>, br |-> <<0, 0>>]

\* SnowStakeMeasurer() as constructed without arguments.
SS_new ==
    [pixels_per_inch |-> NoneD,
     has_stake_region |-> FALSE, stake_region |-> <<0, 0, 0, 0>>,
     has_sample_bounds |-> FALSE, sample_bounds |-> NoQuad,
     has_calibration |-> FALSE,
     sorted_markers |-> <<>>,
     raised |-> FALSE]

Min2(a, b) == IF a < b THEN a ELSE b
Max2(a, b) == IF a > b THEN a ELSE b
Min3(a, b, c) == Min2(a, Min2(b, c))
Max3(a, b, c) == Max2(a, Max2(b, c))

\* The bounding box of stake_corners, extended by sample_bounds.
SS_corner_region(cal, with_bounds, sb) ==
    LET sc == cal.stake_corners
        x0 == Min2(sc.tl[1], sc.bl[1])
        y0 == Min2(sc.tl[2], sc.tr[2])
        xr0 == Max2(sc.tr[1], sc.br[1])
        yb0 == Max2(sc.bl[2], sc.br[2])
        x == IF with_bounds THEN Min3(x0, sb.tl[1], sb.bl[1]) ELSE x0
        xr == IF with_bounds THEN Max3(xr0, sb.tr[1], sb.br[1]) ELSE xr0
        yb == IF with_bounds THEN Max3(yb0, sb.bl[2], sb.br[2]) ELSE yb0
    IN  <<x, y0, xr - x, yb - y0>>

\* sb_bl[1] with sb_bl None (TypeError): self.sample_bounds is kept from an
\* earlier call while the calibration has stake_corners but no sample_bounds.
SS_apply_raises(self, cal) ==
    cal.has_stake_corners /\ ~cal.has_sample_bounds /\ self.has_sample_bounds

\* Alternative: the stake region is determined before sample_bounds is
\* stored, so the region follows the sample_bounds of the call before.
SS_apply_calibration_late_bounds(self, cal) ==
    LET markers == IF cal.markers # <<>> THEN cal.markers ELSE self.sorted_markers
        has_sb == cal.has_sample_bounds \/ self.has_sample_bounds
        sb == IF cal.has_sample_bounds THEN cal.sample_bounds ELSE self.sample_bounds
        raises == SS_apply_raises(self, cal)
    IN  [pixels_per_inch |-> cal.pixels_per_inch,
         has_stake_region |-> IF raises THEN self.has_stake_region
                              ELSE cal.has_stake_corners \/ cal.has_stake_region
                                   \/ self.has_stake_region,
         stake_region |-> IF raises THEN self.stake_region
                          ELSE IF cal.has_stake_corners
                          THEN SS_corner_region(cal, self.has_sample_bounds, sb)
                          ELSE IF cal.has_stake_region THEN cal.stake_region
                          ELSE self.stake_region,
         has_sample_bounds |-> has_sb, sample_bounds |-> sb,
         has_calibration |-> TRUE,
         sorted_markers |-> markers,
         raised |-> raises]

\* "Apply calibration if provided": the measurer after the assignments
\* (up to the raise, if it raises).
SS_apply_calibration(self, cal) ==
    LET markers == IF cal.markers # <<>> THEN cal.markers ELSE self.sorted_markers
        has_sb == cal.has_sample_bounds \/ self.has_sample_bounds
        sb == IF cal.has_sample_bounds THEN cal.sample_bounds ELSE self.sample_bounds
        raises == SS_apply_raises(self, cal)
    IN  [pixels_per_inch |-> cal.pixels_per_inch,
         has_stake_region |-> IF raises THEN self.has_stake_region
                              ELSE cal.has_stake_corners \/ cal.has_stake_region
                                   \/ self.has_stake_region,
         stake_region |-> IF raises THEN self.stake_region
                          ELSE IF cal.has_stake_corners
                          THEN SS_corner_region(cal, has_sb, sb)
                          ELSE IF cal.has_stake_region THEN cal.stake_region
                          ELSE self.stake_region,
         has_sample_bounds |-> has_sb, sample_bounds |-> sb,
         has_calibration |-> TRUE,
         sorted_markers |-> markers,
         raised |-> raises]

\* reference_y as _detect_snow_line resolves it (NoneY when there is none).
SS_reference_y(self, cal) ==
    IF ~self.has_calibration THEN NoneY
    ELSE IF cal.reference_y # NoneY THEN cal.reference_y
    ELSE MarkerGet(cal.markers, 0, NoneY)

\* y_to_inches: the linear branch.
SS_linear_y_to_inches(self, cal, y) ==
    LET ref_y == SS_reference_y(self, cal)
    IN  IF Truthy(self.pixels_per_inch) /\ self.has_calibration
           /\ ref_y # NoneY /\ ref_y # 0
        THEN IF ref_y - y > 0
             THEN Rat((ref_y - y) * self.pixels_per_inch[2], self.pixels_per_inch[1])
             ELSE RatInt(0)
        ELSE NoneD

SS_y_to_inches(self, cal, y) ==
    IF self.sorted_markers # <<>>
    THEN SS_marker_y_to_inches(self.sorted_markers, y)
    ELSE SS_linear_y_to_inches(self, cal, y)


----------------------------------------------------------------------------
(* SnowStakeMeasurer._detect_snow_line: geometry and the per-sample loop.   *)

\* Column outcomes an image can show besides a transition row.
LowContrast == -2
InvertedBrightness == -3
SS_MinContrast == 35

\* The ROI cut out by measure(): image[y:y+h, x:x+w].
SS_roi_height(self, img) ==
    IF self.has_stake_region
    THEN Max2(0, Min2(self.stake_region[4], img.height - self.stake_region[2]))
    ELSE img.height

SS_roi_width(self, img) ==
    IF self.has_stake_region
    THEN Max2(0, Min2(self.stake_region[3], img.width - self.stake_region[1]))
    ELSE img.width

SS_calibrated(self) == self.has_calibration /\ self.has_stake_region

\* <<x_start, x_end>> of the measurement strip, in ROI coordinates.
SS_x_range(self, cal, img) ==
    IF SS_calibrated(self)
    THEN IF cal.has_stake_corners
         THEN <<cal.stake_corners.bl[1] - self.stake_region[1],
                cal.stake_corners.br[1] - self.stake_region[1]>>
         ELSE IF self.has_sample_bounds
         THEN <<self.sample_bounds.bl[1] - self.stake_region[1],
                self.sample_bounds.br[1] - self.stake_region[1]>>
         ELSE LET measure_width == Trunc(self.stake_region[3] * 3, 4)
                  x_center == IF cal.has_centerline
                              THEN cal.stake_centerline_x - self.stake_region[1]
                              ELSE SS_roi_width(self, img) \div 2
              IN  <<Max2(0, x_center - measure_width \div 2),
                    Min2(SS_roi_width(self, img), x_center + measure_width \div 2)>>
    ELSE <<Max2(0, img.stake_line.x - 15),
           Min2(SS_roi_width(self, img), img.stake_line.x + 15)>>

SS_actual_width(self, cal, img) ==
    SS_x_range(self, cal, img)[2] - SS_x_range(self, cal, img)[1]

SS_roi_x_offset(self) == IF SS_calibrated(self) THEN self.stake_region[1] ELSE 0
SS_roi_y_offset(self, img) ==
    IF SS_calibrated(self) THEN self.stake_region[2] ELSE img.stake_line.top_y

SS_region_height(self, img) ==
    IF SS_calibrated(self) THEN SS_roi_height(self, img)
    ELSE img.stake_line.bottom_y - img.stake_line.top_y

\* The early returns (None, None) before the per-sample loop.
SS_no_strip(self, cal, img) ==
    SS_actual_width(self, cal, img) < 10 \/ SS_region_height(self, img) < 10

\* ref_y_rel, and whether the scan starts from the reference row.
SS_ref_y_rel(self, cal) == SS_reference_y(self, cal) - self.stake_region[2]

SS_scan_from_reference(self, cal, img) ==
    /\ SS_reference_y(self, cal) # NoneY
    /\ SS_reference_y(self, cal) # 0
    /\ self.has_stake_region
    /\ 0 < SS_ref_y_rel(self, cal)
    /\ SS_ref_y_rel(self, cal) <= SS_region_height(self, img)

\* The rows (as ROI indices) the scan of one column can report.
SS_reportable(self, cal, img, i) ==
    IF SS_scan_from_reference(self, cal, img)
    THEN 2 <= i /\ i <= Min2(SS_ref_y_rel(self, cal) - 1, SS_region_height(self, img) - 1)
    ELSE 3 <= i /\ i <= SS_region_height(self, img) - 2

\* The outcome of the contrast check and the scan of column idx: a full
\* image row, NoneY, LowContrast or InvertedBrightness.  The image decides.
SS_find_transition(self, cal, img, idx) ==
    LET r == img.rows[idx + 1]
    IN  IF SS_scan_from_reference(self, cal, img) /\ r \in {LowContrast, InvertedBrightness}
        THEN r
        ELSE IF r >= 0 /\ SS_reportable(self, cal, img, r - SS_roi_y_offset(self, img))
        THEN r
        ELSE NoneY

\* np.linspace(0, actual_width - 1, num_samples, dtype=int)[idx] as a full
\* image x coordinate.
SS_x_position(self, cal, img, idx) ==
    SS_roi_x_offset(self) + SS_x_range(self, cal, img)[1]
        + Linspace(0, SS_actual_width(self, cal, img) - 1, idx)

\* The fallback scan gives up when int(h * 0.75) or int(h * 0.3) leaves
\* fewer than 5 rows to compare.
SS_regions_too_small(self, img) ==
    LET h == SS_region_height(self, img)
    IN  h - Trunc(h * 3, 4) < 5 \/ Trunc(h * 3, 10) < 5

\* One iteration of the per-sample loop.
SS_sample(self, cal, img, idx) ==
    LET s0 == NewSample(idx, SS_x_position(self, cal, img, idx), NoneY)
        r == SS_find_transition(self, cal, img, idx)
    IN  IF ~SS_scan_from_reference(self, cal, img) /\ SS_regions_too_small(self, img)
        THEN s0
        ELSE IF r = LowContrast THEN [s0 EXCEPT !.skip_reason = "low_contrast"]
        ELSE IF r = InvertedBrightness
        THEN [s0 EXCEPT !.skip_reason = "inverted_brightness"]
        ELSE IF r = NoneY THEN [s0 EXCEPT !.skip_reason = "no_transition_found"]
        ELSE [s0 EXCEPT !.snow_line_y = r, !.valid = TRUE,
                        !.depth_inches = SS_y_to_inches(self, cal, r)]

SS_detect_samples(self, cal, img) ==
    [i \in 1..NumSamples |-> SS_sample(self, cal, img, i - 1)]

----------------------------------------------------------------------------
(* SnowStakeMeasurer._detect_snow_line: aggregation and shallow-depth       *)
(* correction.                                                              *)

SS_MinValid == 4
SS_CenterIdx == 5

\* valid_snow_lines
SS_candidates(list) ==
    LET Ok(s) == s.snow_line_y # NoneY IN RowsOf(SelectIdx(list, Ok))

\* Mark samples that are IQR outliers
SS_mark_outlier(b, s) ==
    IF s.snow_line_y # NoneY /\ OutOfBounds(b, s.snow_line_y)
    THEN [s EXCEPT !.iqr_outlier = TRUE, !.valid = FALSE,
                   !.skip_reason = IF s.skip_reason = NoReason
                                   THEN "iqr_outlier" ELSE s.skip_reason]
    ELSE s

SS_filter(list, c, b) ==
    <<FilteredMedian(c, b), [i \in 1..Len(list) |-> SS_mark_outlier(b, list[i])]>>

\* <<median_snow_line_y, samples>> after the IQR step.
SS_iqr_step(list) ==
    Only({ IF Len(c) < SS_MinValid THEN <<NoneY, list>>
           ELSE IF Len(c) >= 3
           THEN Only({ SS_filter(list, c, b) : b \in {Bounds8(c)} })
           ELSE <<NoneY, list>>
           : c \in {SS_candidates(list)} })

\* initial_depth < 2.0 and the center sample is usable.
SS_shallow(self, cal, median_y, marked) ==
    /\ SS_reference_y(self, cal) # NoneY /\ SS_reference_y(self, cal) # 0
    /\ Truthy(self.pixels_per_inch)
    /\ median_y # NoneY /\ median_y # 0
    /\ RatLt(Rat((SS_reference_y(self, cal) - median_y) * self.pixels_per_inch[2],
                 self.pixels_per_inch[1]), RatInt(2))
    /\ At(marked, SS_CenterIdx).snow_line_y # NoneY
    /\ At(marked, SS_CenterIdx).valid

SS_shallow_step(self, cal, median_y, marked) ==
    IF SS_shallow(self, cal, median_y, marked)
    THEN <<At(marked, SS_CenterIdx).snow_line_y,
           [i \in 1..Len(marked) |->
               IF marked[i].sample_index # SS_CenterIdx
               THEN [marked[i] EXCEPT !.shallow_excluded = TRUE] ELSE marked[i]]>>
    ELSE <<median_y, marked>>

\* _detect_snow_line's return value after the per-sample loop.
SS_aggregate(self, cal, list) ==
    Only({ SS_shallow_step(self, cal, agg[1], agg[2]) : agg \in {SS_iqr_step(list)} })


----------------------------------------------------------------------------
(* SnowStakeMeasurer.measure.                                               *)

SS_DefaultMinDepth == 1

SS_min_depth_threshold(self, cal) ==
    IF self.has_calibration /\ cal.has_min_depth_threshold
    THEN cal.min_depth_threshold ELSE RatInt(SS_DefaultMinDepth)

\* "Fallback to old calculation if samples didn't provide depth"
SS_fallback_depth(self, cal, median_y) ==
    IF Truthy(self.pixels_per_inch) /\ self.has_calibration /\ cal.reference_y # NoneY
    THEN IF cal.reference_y - median_y > 0
         THEN Rat((cal.reference_y - median_y) * self.pixels_per_inch[2],
                  self.pixels_per_inch[1])
         ELSE RatInt(0)
    ELSE NoneD

\* snow_depth_inches before the minimum depth threshold.
SS_snow_depth(self, cal, median_y, final) ==
    IF ValidDepths(final) # <<>> THEN DepthAvg(final)
    ELSE SS_fallback_depth(self, cal, median_y)

SS_apply_threshold(self, cal, depth) ==
    IF depth # NoneD /\ RatLt(depth, SS_min_depth_threshold(self, cal))
    THEN NoneD ELSE depth

\* _calculate_confidence, in tenths.
SS_confidence10(stake_line, median_y) ==
    LET c == 5 + (IF stake_line.length > 200 THEN 2
                  ELSE IF stake_line.length > 100 THEN 1 ELSE 0)
               + (IF stake_line.angle < 5 THEN 2
                  ELSE IF stake_line.angle < 10 THEN 1 ELSE 0)
               + (IF median_y # NoneY THEN 1 ELSE 0)
    IN  IF c > 10 THEN 10 ELSE c

SS_unclear(has_samples, list) ==
    Returned(NoneD, 3, TRUE, NoneY, has_samples, list, NoneD, NoneD, NoneD,
             "Stake detected but snow line unclear")

SS_no_stake_result ==
    Returned(NoneD, 0, FALSE, NoneY, FALSE, <<>>, NoneD, NoneD, NoneD,
             "No stake detected")

\* measure_from_file: the image file is missing or cannot be decoded.
SS_unreadable_result(file) ==
    Returned(NoneD, 0, FALSE, NoneY, FALSE, <<>>, NoneD, NoneD, NoneD,
             IF file = "missing" THEN "Image file not found" ELSE "Failed to load image")

\* measure() from the return of _detect_snow_line on.
SS_measure_rest(self, cal, img, median_y, final) ==
    IF median_y = NoneY THEN SS_unclear(TRUE, final)
    ELSE Returned(SS_apply_threshold(self, cal, SS_snow_depth(self, cal, median_y, final)),
                  SS_confidence10(img.stake_line, median_y), TRUE, median_y, TRUE, final,
                  DepthMin(final), DepthMax(final), DepthAvg(final), "")

----------------------------------------------------------------------------
(* Inputs of a measurement call: calibrations and images.                   *)

\* The legacy-format calibration with the marker rows quoted in measure()'s
\* comment (0" at 800, 2" at 745) and the default stake region.
WP_CalLegacy ==
    [markers |-> <<<<0, 800>>, <<2, 745>>, <<4, 700>>, <<6, 640>>>>,
     stake_region |-> <<780, 280, 80, 510>>, centerline_x |-> 820,
     has_sample_bounds |-> FALSE,
     sample_bounds |-> [tl |-> <<0, 0>>, tr |-> <<0, 0>>, bl |-> <<0, 0>>, br |-> <<0, 0>>],
     has_axis |-> FALSE, axis_top |-> <<0, 0>>, axis_bottom |-> <<0, 0>>,
     min_depth_threshold |-> RatInt(1)]

\* A corner-based calibration: sample_bounds, a slightly tilted stake axis
\* and a higher minimum depth threshold.
WP_CalCorners ==
    [markers |-> <<<<0, 800>>, <<2, 745>>, <<4, 700>>, <<6, 640>>>>,
     stake_region |-> <<780, 280, 80, 520>>, centerline_x |-> 820,
     has_sample_bounds |-> TRUE,
     sample_bounds |-> [tl |-> <<760, 280>>, tr |-> <<880, 280>>,
                        bl |-> <<760, 800>>, br |-> <<880, 800>>],
     has_axis |-> TRUE, axis_top |-> <<815, 280>>, axis_bottom |-> <<825, 800>>,
     min_depth_threshold |-> RatInt(4)]

\* A calibration without a 0" marker: the base is the bottom of the stake
\* region (row 790) and the lowest marker is the 2" marker.
WP_CalNoZero ==
    [WP_CalLegacy EXCEPT !.markers = <<<<2, 745>>, <<4, 700>>, <<6, 640>>>>]

WP_Calibrations == {WP_CalLegacy, WP_CalCorners, WP_CalNoZero}

\* Rows at which an image may show a transition in a column: near the base
\* (790), in the lower part of the 0"-2" span (760), at the 4" marker (700),
\* at the 6" marker (640), in the top 8% of the stake region (300); NoneY: no
\* transition in that column.
WP_Outcomes == {NoneY, 790, 760, 700, 640, 300}

SS_NoQuadCal ==
    [has_sample_bounds |-> FALSE, sample_bounds |-> NoQuad,
     has_stake_corners |-> FALSE, stake_corners |-> NoQuad,
     has_stake_region |-> TRUE, stake_region |-> <<600, 300, 120, 250>>,
     has_centerline |-> FALSE, stake_centerline_x |-> 0]

\* A linear calibration (no markers): 10 px per inch below row 500, default
\* minimum depth threshold.
SS_CalLinear ==
    [markers |-> <<>>, pixels_per_inch |-> RatInt(10), reference_y |-> 500,
     has_min_depth_threshold |-> FALSE, min_depth_threshold |-> NoneD,
     outcomes |-> {NoneY, LowContrast, 495, 488, 400}] @@ SS_NoQuadCal

\* A marker calibration whose reference_y lies below the 0" marker.
SS_CalMarkers ==
    [markers |-> <<<<0, 500>>, <<2, 480>>, <<4, 455>>, <<6, 440>>>>,
     pixels_per_inch |-> RatInt(10), reference_y |-> 510,
     has_min_depth_threshold |-> TRUE, min_depth_threshold |-> RatInt(1),
     outcomes |-> {InvertedBrightness, 505, 495, 455, 400}] @@ SS_NoQuadCal

\* A stake region too narrow for a measurement strip.
SS_CalNarrow == [SS_CalLinear EXCEPT !.stake_region = <<600, 300, 8, 250>>]

\* A calibration without reference_y and without markers.
SS_CalNoReference == [SS_CalLinear EXCEPT !.reference_y = NoneY]

\* The same with a stake region 16 rows high.
SS_CalShort == [SS_CalNoReference EXCEPT !.stake_region = <<600, 300, 120, 16>>]

SS_Calibrations ==
    {SS_CalLinear, SS_CalMarkers, SS_CalNarrow, SS_CalNoReference, SS_CalShort}

\* A calibration an earlier call may have applied: markers and sample_bounds.
SS_CalEarlier ==
    [SS_CalMarkers EXCEPT
        !.has_sample_bounds = TRUE,
        !.sample_bounds = [tl |-> <<610, 300>>, tr |-> <<700, 300>>,
                           bl |-> <<610, 550>>, br |-> <<700, 550>>]]

\* A calibration with stake_corners and neither sample_bounds nor the legacy
\* stake_region fields.
SS_CalCorners ==
    [SS_CalLinear EXCEPT
        !.has_stake_region = FALSE,
        !.has_stake_corners = TRUE,
        !.stake_corners = [tl |-> <<600, 300>>, tr |-> <<720, 300>>,
                           bl |-> <<600, 550>>, br |-> <<720, 550>>]]

\* A calibration whose stake_corners end above reference_y and whose
\* sample_bounds reach below it.
SS_CalCornersBounds ==
    [SS_CalLinear EXCEPT
        !.has_stake_region = FALSE,
        !.has_stake_corners = TRUE,
        !.stake_corners = [tl |-> <<600, 300>>, tr |-> <<720, 300>>,
                           bl |-> <<600, 490>>, br |-> <<720, 490>>],
        !.has_sample_bounds = TRUE,
        !.sample_bounds = [tl |-> <<610, 300>>, tr |-> <<700, 300>>,
                           bl |-> <<610, 550>>, br |-> <<700, 550>>]]

\* The objects a call may be made on: a new one, and one that measured with
\* SS_CalEarlier before.
SS_Instances == {SS_new, SS_apply_calibration(SS_new, SS_CalEarlier)}

ImageHeight == 1080
ImageWidth == 1920
MaxOdd == 1

\* Mean |R - B| of the central patch, in tenths: a daylight image, and the
\* two values around the grayscale limit.
ColourDiff10 == 120
NearGrayDiffs10 == {WP_GrayLimit10 - 1, WP_GrayLimit10}

\* The stake line the Hough transform reports when it finds one.
StakeLine == [x |-> 60, top_y |-> 20, bottom_y |-> 240, length |-> 220, angle |-> 0]

Image(rows, rb_diff10, stake) ==
    [file |-> "ok", rb_diff10 |-> rb_diff10, stake |-> stake, height |-> ImageHeight, width |-> ImageWidth,
     stake_line |-> StakeLine, rows |-> rows]

\* All columns show the same outcome except at most MaxOdd of them.
OddImage(O, img, rb_diff10, stake) ==
    \E b \in O :
        \E D \in {E \in SUBSET (1..NumSamples) : Cardinality(E) <= MaxOdd} :
            \E f \in [D -> O \ {b}] :
                img = Image([i \in 1..NumSamples |-> IF i \in D THEN f[i] ELSE b],
                            rb_diff10, stake)

\* The leftmost and the rightmost column each show an outcome of their own.
EdgeImage(O, img, rb_diff10, stake) ==
    \E a \in O, b \in O, c \in O :
        img = Image([i \in 1..NumSamples |->
                        IF i = 1 THEN a ELSE IF i = NumSamples THEN b ELSE c],
                    rb_diff10, stake)

\* An image file that is missing or that cv2.imread cannot decode.
Unreadable(file) == [Image(<<>>, 0, FALSE) EXCEPT !.file = file]
UnreadableImages == {Unreadable("missing"), Unreadable("undecodable")}

\* The left columns show one outcome and the right columns another one.
SplitImage(O, img, rb_diff10, stake) ==
    \E j \in 0..NumSamples, a \in O, b \in O :
        img = Image([i \in 1..NumSamples |-> IF i <= j THEN a ELSE b], rb_diff10, stake)

\* The left columns show one outcome, the next column a second one and the
\* columns right of it a third one.
ThreeImage(O, img, rb_diff10, stake) ==
    \E j \in 0..(NumSamples - 1), a \in O, b \in O, c \in O :
        img = Image([i \in 1..NumSamples |->
                        IF i <= j THEN a ELSE IF i = j + 1 THEN b ELSE c],
                    rb_diff10, stake)

----------------------------------------------------------------------------
(* The measurement call as a state machine.                                 *)

\* The SnowStakeMeasurer of the call: the object with the calibration
\* applied by measure_from_file.
Self == SS_apply_calibration(instance, calibration)

\* The state at the entry of a first call.
CallStart ==
    /\ DbIdle
    /\ cMeasurer = "none"
    /\ cMarkers = <<>>
    /\ cY1 = 0
    /\ cY2 = 0
    /\ cD1 = NoneD
    /\ cD2 = NoneD
    /\ cPc = "idle"
    /\ samples = <<>>
    /\ snow_line_y = NoneY
    /\ result = NoResult
    /\ previous = NoResult
    /\ call = "first"
    /\ pc = "ready"

\* One call of measure_from_file / measure on a new measurer.
MeasInit ==
    /\ CallStart
    /\ \/ /\ measurer = "WP"
          /\ calibration \in WP_Calibrations
          /\ instance = <<>>
          /\ \/ OddImage(WP_Outcomes, image, ColourDiff10, TRUE)
             \/ EdgeImage(WP_Outcomes, image, ColourDiff10, TRUE)
             \/ ThreeImage(WP_Outcomes, image, ColourDiff10, TRUE)
             \/ \E d \in NearGrayDiffs10 : SplitImage(WP_Outcomes, image, d, TRUE)
             \/ image \in UnreadableImages
       \/ /\ measurer = "SS"
          /\ calibration \in SS_Calibrations
          /\ instance = SS_new
          /\ \/ OddImage(calibration.outcomes, image, ColourDiff10, TRUE)
             \/ EdgeImage(calibration.outcomes, image, ColourDiff10, TRUE)
             \/ ThreeImage(calibration.outcomes, image, ColourDiff10, TRUE)
             \/ \E st \in BOOLEAN :
                   SplitImage(calibration.outcomes, image, ColourDiff10, st)
             \/ image \in UnreadableImages

\* measure_from_file: the file is missing or cannot be decoded.
WP_Unreadable ==
    /\ pc = "ready"
    /\ measurer = "WP"
    /\ image.file # "ok"
    /\ result' = WP_unreadable_result(image.file)
    /\ pc' = "done"
    /\ UNCHANGED <<measurer, calibration, image, samples, snow_line_y, instance, previous, call>>
    /\ UNCHANGED <<convVars, dbVars>>

\* measure_from_file: the file is missing or cannot be decoded (the
\* calibration is not applied).
SS_Unreadable ==
    /\ pc = "ready"
    /\ measurer = "SS"
    /\ image.file # "ok"
    /\ result' = SS_unreadable_result(image.file)
    /\ pc' = "done"
    /\ UNCHANGED <<measurer, calibration, image, samples, snow_line_y, instance, previous, call>>
    /\ UNCHANGED <<convVars, dbVars>>

\* WinterParkMeasurer.measure(): the image is grayscale, return without
\* scanning.
WP_MeasureGray ==
    /\ pc = "ready"
    /\ measurer = "WP"
    /\ image.file = "ok"
    /\ WP_is_grayscale_image(image)
    /\ result' = WP_gray_result
    /\ pc' = "done"
    /\ UNCHANGED <<measurer, calibration, image, samples, snow_line_y, instance, previous, call>>
    /\ UNCHANGED <<convVars, dbVars>>

\* A scan that does not wait for the grayscale check (not the code's).
WP_DetectSamples_unchecked ==
    /\ pc = "ready"
    /\ measurer = "WP"
    /\ image.file = "ok"
    /\ samples' = WP_detect_samples(calibration, image)
    /\ pc' = "detected"
    /\ UNCHANGED <<measurer, calibration, image, snow_line_y, result, instance, previous, call>>
    /\ UNCHANGED <<convVars, dbVars>>

\* WinterParkMeasurer.detect_snow_line(): the per-sample loop.
WP_DetectSamples ==
    /\ pc = "ready"
    /\ measurer = "WP"
    /\ image.file = "ok"
    /\ ~WP_is_grayscale_image(image)
    /\ samples' = WP_detect_samples(calibration, image)
    /\ pc' = "detected"
    /\ UNCHANGED <<measurer, calibration, image, snow_line_y, result, instance, previous, call>>
    /\ UNCHANGED <<convVars, dbVars>>

\* WinterParkMeasurer.detect_snow_line(): aggregation, and the rest of
\* measure().
WP_Finish ==
    /\ pc = "detected"
    /\ measurer = "WP"
    /\ \E agg \in {IF WP_raised(samples) THEN <<NoneY, samples>>
                    ELSE WP_aggregate(samples)} :
          /\ snow_line_y' = agg[1]
          /\ result' = IF WP_raised(samples) THEN RaisedResult
                       ELSE WP_measure_rest(calibration, agg[1], agg[2])
    /\ pc' = "done"
    /\ UNCHANGED <<measurer, calibration, image, samples, instance, previous, call>>
    /\ UNCHANGED <<convVars, dbVars>>

\* SnowStakeMeasurer.measure(): no stake line, or no measurement strip.
SS_MeasureNoStake ==
    /\ pc = "ready"
    /\ measurer = "SS"
    /\ image.file = "ok"
    /\ ~Self.raised
    /\ ~image.stake \/ SS_no_strip(Self, calibration, image)
    /\ result' = IF ~image.stake THEN SS_no_stake_result ELSE SS_unclear(FALSE, <<>>)
    /\ pc' = "done"
    /\ UNCHANGED <<measurer, calibration, image, samples, snow_line_y, instance, previous, call>>
    /\ UNCHANGED <<convVars, dbVars>>

\* SnowStakeMeasurer._detect_snow_line(): the per-sample loop.
SS_DetectSamples ==
    /\ pc = "ready"
    /\ measurer = "SS"
    /\ image.file = "ok"
    /\ ~Self.raised
    /\ image.stake
    /\ ~SS_no_strip(Self, calibration, image)
    /\ samples' = SS_detect_samples(Self, calibration, image)
    /\ pc' = "detected"
    /\ UNCHANGED <<measurer, calibration, image, snow_line_y, result, instance, previous, call>>
    /\ UNCHANGED <<convVars, dbVars>>

\* SnowStakeMeasurer._detect_snow_line(): aggregation, and the rest of
\* measure().
SS_Finish ==
    /\ pc = "detected"
    /\ measurer = "SS"
    /\ \E agg \in {SS_aggregate(Self, calibration, samples)} :
          /\ snow_line_y' = agg[1]
          /\ result' = SS_measure_rest(Self, calibration, image, agg[1], agg[2])
    /\ pc' = "done"
    /\ UNCHANGED <<measurer, calibration, image, samples, instance, previous, call>>
    /\ UNCHANGED <<convVars, dbVars>>

Next ==
    \/ WP_Unreadable
    \/ SS_Unreadable
    \/ WP_MeasureGray
    \/ WP_DetectSamples
    \/ WP_Finish
    \/ SS_MeasureNoStake
    \/ SS_DetectSamples
    \/ SS_Finish

Spec == MeasInit /\ [][Next]_vars

----------------------------------------------------------------------------
(* Two calls for the same image and calibration: on one measurer object,   *)
(* or on an object with earlier calls and then on a new one.               *)

CallsInit ==
    /\ CallStart
    /\ \/ /\ measurer = "WP"
          /\ calibration \in WP_Calibrations
          /\ instance = <<>>
          /\ \/ \E d \in NearGrayDiffs10 : SplitImage(WP_Outcomes, image, d, TRUE)
             \/ image \in UnreadableImages
       \/ /\ measurer = "SS"
          /\ calibration \in SS_Calibrations \cup {SS_CalCorners, SS_CalCornersBounds}
          /\ instance \in SS_Instances
          /\ \/ \E st \in BOOLEAN :
                   SplitImage(calibration.outcomes, image, ColourDiff10, st)
             \/ image \in UnreadableImages

\* measure_from_file raises while it applies the calibration.
SS_CalibrationRaises ==
    /\ pc = "ready"
    /\ measurer = "SS"
    /\ image.file = "ok"
    /\ Self.raised
    /\ result' = RaisedResult
    /\ pc' = "done"
    /\ UNCHANGED <<measurer, calibration, image, samples, snow_line_y, instance, previous, call>>
    /\ UNCHANGED <<convVars, dbVars>>

\* The fields of the measurer object after the call.
InstanceAfter ==
    IF measurer = "SS" /\ image.file = "ok" THEN Self ELSE instance

\* The caller measures the same image with the same calibration again on
\* the same measurer object.
MeasureAgain ==
    /\ pc = "done"
    /\ call = "first"
    /\ previous' = result
    /\ instance' = InstanceAfter
    /\ call' = "again"
    /\ samples' = <<>>
    /\ snow_line_y' = NoneY
    /\ result' = NoResult
    /\ pc' = "ready"
    /\ UNCHANGED <<measurer, calibration, image>>
    /\ UNCHANGED <<convVars, dbVars>>

\* The caller measures the same image with the same calibration on a new
\* SnowStakeMeasurer.
MeasureOnNew ==
    /\ pc = "done"
    /\ call = "first"
    /\ measurer = "SS"
    /\ previous' = result
    /\ instance' = SS_new
    /\ call' = "other"
    /\ samples' = <<>>
    /\ snow_line_y' = NoneY
    /\ result' = NoResult
    /\ pc' = "ready"
    /\ UNCHANGED <<measurer, calibration, image>>
    /\ UNCHANGED <<convVars, dbVars>>

CallsNext ==
    \/ Next
    \/ SS_CalibrationRaises
    \/ MeasureAgain
    \/ MeasureOnNew

SpecCalls == CallsInit /\ [][CallsNext]_vars


----------------------------------------------------------------------------
(* Properties of a measurement call.                                        *)

\* measure() returned a result built from a sample list.
Sampled == pc = "done" /\ result.status = "returned" /\ result.has_samples

\* measure() returned and the sample aggregator produced a row.
Measured == Sampled /\ snow_line_y # NoneY

\* The aggregate depth of the call, before the minimum depth threshold.
AggregateDepth ==
    IF measurer = "WP" THEN WP_clamped_depth(calibration, snow_line_y)
    ELSE SS_snow_depth(Self, calibration, snow_line_y, result.samples)

MinDepthThreshold ==
    IF measurer = "WP" THEN calibration.min_depth_threshold
    ELSE SS_min_depth_threshold(Self, calibration)

\* C4: in both measurers a positive aggregate depth below
\* min_depth_threshold is reported as None, and an aggregate depth of
\* exactly 0.0 is reported as 0.0, never as None.
C4_Thresholding ==
    Measured =>
        /\ AggregateDepth = RatInt(0) => result.snow_depth_inches = RatInt(0)
        /\ (/\ IsNum(AggregateDepth)
            /\ RatLt(RatInt(0), AggregateDepth)
            /\ RatLt(AggregateDepth, MinDepthThreshold))
           => result.snow_depth_inches = NoneD

\* C5: every sample whose detected row lies within the base threshold of the
\* 0-inch marker (90% of the pixel span between the 0 and 2 inch markers)
\* is returned with depth_inches 0.0 and skip_reason 'at_base', whatever the
\* other samples or the median are.
C5_BaseClamp ==
    (Sampled /\ measurer = "WP") =>
        \A i \in 1..Len(samples) :
            (/\ samples[i].snow_line_y # NoneY
             /\ samples[i].snow_line_y >= WP_base_zone_y(calibration))
            => /\ result.samples[i].depth_inches = RatInt(0)
               /\ result.samples[i].skip_reason = "at_base"

\* C6: when a depth is reported from enough valid samples and neither the
\* base clamp nor the threshold overrides it, the reported depth is the
\* arithmetic mean of the valid samples' depths (depth_avg).
C6_ReportsMean ==
    (/\ Measured
     /\ result.snow_depth_inches # NoneD
     /\ measurer = "WP" => snow_line_y < WP_base_zone_y(calibration))
    => result.snow_depth_inches = result.depth_avg

\* The rows of the samples the per-sample loop left valid.
ValidRows ==
    LET Ok(s) == s.valid /\ s.snow_line_y # NoneY
    IN  RowsOf(SelectIdx(samples, Ok))

\* Every previously valid sample outside the bounds b ends invalid with skip
\* reason 'iqr_outlier'.
OutliersMarked(b) ==
    \A i \in 1..Len(samples) :
        (/\ samples[i].valid
         /\ samples[i].snow_line_y # NoneY
         /\ OutOfBounds(b, samples[i].snow_line_y))
        => /\ ~result.samples[i].valid
           /\ result.samples[i].skip_reason = "iqr_outlier"

\* The samples with index in C form a cluster and the two others are far
\* from it: further than 1.5 * max(spread of the cluster, 10).
EightAndTwo(C) ==
    LET lo == CHOOSE y \in {samples[i].snow_line_y : i \in C} :
                  \A i \in C : y <= samples[i].snow_line_y
        hi == CHOOSE y \in {samples[i].snow_line_y : i \in C} :
                  \A i \in C : y >= samples[i].snow_line_y
        reach == 3 * Max2(hi - lo, MinIqr)
    IN  /\ Cardinality(C) = 8
        /\ Len(samples) = 10
        /\ \A i \in 1..Len(samples) : samples[i].valid /\ samples[i].snow_line_y # NoneY
        /\ \A j \in (1..Len(samples)) \ C :
              \/ 2 * (lo - samples[j].snow_line_y) > reach
              \/ 2 * (samples[j].snow_line_y - hi) > reach

\* With 8 clustered rows and 2 far rows the median lies inside the cluster
\* and exactly the 2 far samples are marked.
ClusterKept ==
    \A C \in SUBSET (1..Len(samples)) :
        EightAndTwo(C) =>
            /\ \A i \in C : result.samples[i].skip_reason # "iqr_outlier"
            /\ \A j \in (1..Len(samples)) \ C :
                  result.samples[j].skip_reason = "iqr_outlier"
            /\ \E i \in C : samples[i].snow_line_y <= snow_line_y
            /\ \E i \in C : samples[i].snow_line_y >= snow_line_y

C8_SkipReasonKept ==
    Sampled =>
        \A i \in 1..Len(samples) :
            samples[i].skip_reason # NoReason
            => result.samples[i].skip_reason = samples[i].skip_reason

\* An at_base sample whose row is outside the IQR bounds of the valid rows.
C8_Witness ==
    /\ Measured
    /\ \E i \in 1..Len(samples) :
          /\ samples[i].skip_reason = "at_base"
          /\ samples[i].snow_line_y # NoneY
          /\ OutOfBounds(Bounds8(ValidRows), samples[i].snow_line_y)

\* The number of samples valid after per-sample detection.
NumValid == Cardinality({i \in 1..Len(samples) : samples[i].valid})

\* C9: with fewer than 3 (WinterParkMeasurer) or fewer than 4
\* (SnowStakeMeasurer) samples valid after per-sample detection, the
\* measurement reports snow_depth_inches None, snow_line_y None and the
\* sample list as detected.
C9_MinimumSamples ==
    (/\ Sampled
     /\ \/ measurer = "WP" /\ NumValid < 3
        \/ measurer = "SS" /\ NumValid < 4)
    => /\ result.snow_depth_inches = NoneD
       /\ result.snow_line_y = NoneY
       /\ result.samples = samples

\* Two valid samples out of ten in marker mode.
C9_Witness == Sampled /\ measurer = "WP" /\ NumValid = 2 /\ Len(samples) = 10

\* C10: when the aggregate depth is below 2.0 and the center sample (index 5
\* of 10) is valid, the reported depth is the center sample's depth_inches
\* (subject to the minimum depth threshold) and every other sample is
\* flagged shallow_excluded.
C10_ShallowUsesCenter ==
    \A center \in {IF Sampled THEN At(result.samples, SS_CenterIdx) ELSE NewSample(0, 0, 0)} :
        (/\ Measured
         /\ IsNum(AggregateDepth)
         /\ RatLt(AggregateDepth, RatInt(2))
         /\ center.valid)
        => /\ \/ result.snow_depth_inches = center.depth_inches
              \/ /\ result.snow_depth_inches = NoneD
                 /\ RatLt(center.depth_inches, MinDepthThreshold)
           /\ \A i \in 1..Len(result.samples) :
                 result.samples[i].sample_index # SS_CenterIdx
                 => result.samples[i].shallow_excluded

\* The number of valid samples with a depth in the returned list.
NumValidDepths ==
    Cardinality({i \in 1..Len(result.samples) :
                    /\ result.samples[i].valid
                    /\ result.samples[i].depth_inches # NoneD})

\* C11: the confidence of a measurement with a detected snow line is
\* min(1.0, 0.5 + 0.2*[n >= 5] + 0.1*[n >= 8] + 0.2*[depth_max - depth_min < 2.0])
\* (in tenths here), the consistency bonus being granted whenever the spread
\* is below 2.0, a minimum depth of 0.0 included.
C11_ConfidenceFormula ==
    (Measured /\ NumValidDepths > 0) =>
        \A c \in {5 + (IF NumValidDepths >= 5 THEN 2 ELSE 0)
                    + (IF NumValidDepths >= 8 THEN 1 ELSE 0)
                    + (IF RatLt(RatSub(result.depth_max, result.depth_min), RatInt(2))
                       THEN 2 ELSE 0)} :
            result.confidence10 = IF c > 10 THEN 10 ELSE c

\* C12: for an image that is_grayscale_image rejects (mean |R - B| below
\* 5.0), WinterParkMeasurer.measure returns depth None, confidence 0.0 and
\* the note "Skipped: grayscale/night image" with no sample list, and the
\* per-sample scan is never entered.
C12_GrayBeforeScan ==
    (measurer = "WP" /\ image.file = "ok" /\ image.rb_diff10 < 50) =>
        /\ pc \in {"ready", "done"}
        /\ samples = <<>>
        /\ pc = "done" =>
              /\ result.status = "returned"
              /\ result.snow_depth_inches = NoneD
              /\ result.confidence10 = 0
              /\ result.notes = "Skipped: grayscale/night image"
              /\ ~result.has_samples
              /\ result.samples = <<>>

\* A grayscale image was measured.
C12_Witness ==
    measurer = "WP" /\ image.file = "ok" /\ image.rb_diff10 < 50 /\ pc = "done"

\* C13: the result of SnowStakeMeasurer.measure_from_file depends only on
\* the call's image and calibration: a measurer with earlier calls and a new
\* measurer return equal results.
C13_NoCrossCallState ==
    (pc = "done" /\ call = "other") => result = previous

\* C14: measuring the same image with the same calibration twice in a row
\* on the same measurer yields identical result fields, and the calibration
\* record is never modified.
C14_Idempotent ==
    [][/\ (pc' = "done" /\ call' = "again") => result' = previous'
       /\ calibration' = calibration]_vars

\* A second call on the same object returned a measured depth.
C14_Witness ==
    /\ pc = "done" /\ call = "again"
    /\ result.status = "returned"
    /\ result.snow_depth_inches # NoneD

\* C16: when the image file is missing or cannot be decoded,
\* measure_from_file returns depth None, confidence 0.0, stake_visible
\* false and a non-empty note, without raising and without detection.
C16_UnreadableInput ==
    (measurer \in {"WP", "SS"} /\ image.file # "ok") =>
        /\ pc \in {"ready", "done"}
        /\ samples = <<>>
        /\ pc = "done" =>
              /\ result.status = "returned"
              /\ result.snow_depth_inches = NoneD
              /\ result.confidence10 = 0
              /\ ~result.stake_visible
              /\ result.notes # ""
              /\ ~result.has_samples

\* measure_from_file returned for a file that cannot be decoded.
C16_Witness ==
    /\ measurer \in {"WP", "SS"} /\ pc = "done"
    /\ image.file = "undecodable"

\* C15: y_to_inches never raises, whatever the marker set (one marker or
\* more, the top two possibly on the same row) and whatever the row: it
\* returns a number.
C15_NeverRaises ==
    cPc = "done" => (IsNum(cD1) /\ IsNum(cD2))

\* The linear branch for a calibration with reference row ref.
LinearDepth(ref, y) ==
    SS_linear_y_to_inches(SS_apply_calibration(SS_new, [SS_CalLinear EXCEPT !.reference_y = ref]),
                          [SS_CalLinear EXCEPT !.reference_y = ref], y)

\* C17: with at least two markers, every row at or below the 0-inch
\* marker's row converts to exactly 0; in linear mode every row with
\* reference_y - y <= 0 converts to exactly 0; no conversion result is
\* negative.
C17_ZeroAtOrBelowReference ==
    /\ (cPc = "done" /\ Len(cMarkers) >= 2) =>
          /\ (cMarkers[1][1] = 0 /\ cY1 >= cMarkers[1][2]) => cD1 = RatInt(0)
          /\ IsNum(cD1) => RatLe(RatInt(0), cD1)
    /\ \A ref \in 1..BaseRow : \A y \in ConvRows :
          /\ ref - y <= 0 => LinearDepth(ref, y) = RatInt(0)
          /\ RatLe(RatInt(0), LinearDepth(ref, y))

----------------------------------------------------------------------------
(* The cron driver: process_resort of scripts/measure_new_images.py.  What *)
(* measure_image and the INSERT do for an image is an input: a result is   *)
(* returned and the row written ("measured"), measure_image returns None   *)
(* ("none"), or an exception is raised ("raises").  Every image that       *)
(* find_hourly_images returns has a timestamp: its file-name pattern       *)
(* implies the pattern of extract_timestamp.                               *)

MaxImages == 3
ImageOutcomes == {"measured", "none", "raises"}
Batches == UNION {[1..n -> ImageOutcomes] : n \in 0..MaxImages}

MeasIdle ==
    /\ cMeasurer = "none"
    /\ cMarkers = <<>>
    /\ cY1 = 0
    /\ cY2 = 0
    /\ cD1 = NoneD
    /\ cD2 = NoneD
    /\ cPc = "idle"
    /\ measurer = "none"
    /\ calibration = <<>>
    /\ image = <<>>
    /\ samples = <<>>
    /\ snow_line_y = NoneY
    /\ result = <<>>
    /\ instance = <<>>
    /\ previous = <<>>
    /\ call = "none"
    /\ pc = "idle"

CronInit ==
    /\ MeasIdle
    /\ ScanIdle
    /\ HourlyIdle
    /\ StoreIdle
    /\ VersionsIdle
    /\ resort_config \in [enabled : BOOLEAN, dry_run : BOOLEAN, measurer_loads : BOOLEAN]
    /\ new_images \in Batches
    /\ img_index = 0
    /\ attempted = {}
    /\ inserted = {}
    /\ prPc = "start"

DriverFrame == UNCHANGED <<convVars, measVars, storeVars, versionVars, scanVars, hourlyVars>>

\* if not resort_config.get('enabled', False): return 0
PR_Disabled ==
    /\ prPc = "start"
    /\ ~resort_config.enabled
    /\ prPc' = "returned"
    /\ UNCHANGED <<resort_config, new_images, img_index, attempted, inserted>>
    /\ DriverFrame

\* if not new_images: return 0
PR_NoNewImages ==
    /\ prPc = "start"
    /\ resort_config.enabled
    /\ new_images = <<>>
    /\ prPc' = "returned"
    /\ UNCHANGED <<resort_config, new_images, img_index, attempted, inserted>>
    /\ DriverFrame

\* if dry_run: ... return len(new_images)
PR_DryRun ==
    /\ prPc = "start"
    /\ resort_config.enabled
    /\ new_images # <<>>
    /\ resort_config.dry_run
    /\ prPc' = "returned"
    /\ UNCHANGED <<resort_config, new_images, img_index, attempted, inserted>>
    /\ DriverFrame

\* get_measurer raised: return 0
PR_MeasurerFails ==
    /\ prPc = "start"
    /\ resort_config.enabled
    /\ new_images # <<>>
    /\ ~resort_config.dry_run
    /\ ~resort_config.measurer_loads
    /\ prPc' = "returned"
    /\ UNCHANGED <<resort_config, new_images, img_index, attempted, inserted>>
    /\ DriverFrame

\* added = 0; for img_path in new_images:
PR_EnterLoop ==
    /\ prPc = "start"
    /\ resort_config.enabled
    /\ new_images # <<>>
    /\ ~resort_config.dry_run
    /\ resort_config.measurer_loads
    /\ img_index' = 1
    /\ prPc' = "loop"
    /\ UNCHANGED <<resort_config, new_images, attempted, inserted>>
    /\ DriverFrame

\* One iteration: measure_image returned a result, INSERT OR IGNORE ran.
PR_Measured ==
    /\ prPc = "loop"
    /\ img_index <= Len(new_images)
    /\ new_images[img_index] = "measured"
    /\ attempted' = attempted \cup {img_index}
    /\ inserted' = inserted \cup {img_index}
    /\ img_index' = img_index + 1
    /\ UNCHANGED <<resort_config, new_images, prPc>>
    /\ DriverFrame

\* One iteration: if result is None: continue
PR_NoResult ==
    /\ prPc = "loop"
    /\ img_index <= Len(new_images)
    /\ new_images[img_index] = "none"
    /\ attempted' = attempted \cup {img_index}
    /\ img_index' = img_index + 1
    /\ UNCHANGED <<resort_config, new_images, inserted, prPc>>
    /\ DriverFrame

\* Alternative: the exception leaves process_resort.
PR_Raised_propagates ==
    /\ prPc = "loop"
    /\ img_index <= Len(new_images)
    /\ new_images[img_index] = "raises"
    /\ attempted' = attempted \cup {img_index}
    /\ prPc' = "returned"
    /\ UNCHANGED <<resort_config, new_images, img_index, inserted>>
    /\ DriverFrame

\* One iteration: except Exception as e: print(...)
PR_Raised ==
    /\ prPc = "loop"
    /\ img_index <= Len(new_images)
    /\ new_images[img_index] = "raises"
    /\ attempted' = attempted \cup {img_index}
    /\ img_index' = img_index + 1
    /\ UNCHANGED <<resort_config, new_images, inserted, prPc>>
    /\ DriverFrame

\* The loop is exhausted: return added
PR_Return ==
    /\ prPc = "loop"
    /\ img_index > Len(new_images)
    /\ prPc' = "returned"
    /\ UNCHANGED <<resort_config, new_images, img_index, attempted, inserted>>
    /\ DriverFrame

CronNext ==
    \/ PR_Disabled
    \/ PR_NoNewImages
    \/ PR_DryRun
    \/ PR_MeasurerFails
    \/ PR_EnterLoop
    \/ PR_Measured
    \/ PR_NoResult
    \/ PR_Raised
    \/ PR_Return

SpecCron == CronInit /\ [][CronNext]_vars

\* process_resort is a sequential loop over a finite list: every step that
\* can be taken is taken.
SpecCronFair == SpecCron /\ WF_vars(CronNext)

\* C18: once the loop of process_resort runs, a measurement attempt is
\* eventually made for every new image of the batch, whatever measuring
\* the earlier images did (raised, returned nothing); on return exactly
\* the images whose measurement failed are without a stored row.
C18_BatchNotBlocked ==
    /\ \A i \in 1..MaxImages :
          (prPc = "loop" /\ i <= Len(new_images)) ~> (i \in attempted)
    /\ [](prPc = "returned" /\ img_index > 0 =>
            /\ attempted = 1..Len(new_images)
            /\ inserted = {i \in 1..Len(new_images) : new_images[i] = "measured"})

\* process_resort returned after an image raised and a later image was
\* measured and stored.
C18_Witness ==
    /\ prPc = "returned"
    /\ \E i, j \in 1..Len(new_images) :
          /\ i < j
          /\ new_images[i] = "raises"
          /\ j \in attempted
          /\ j \in inserted

----------------------------------------------------------------------------
(* SnowDatabase (snowcammeasurement/db.py): the hourly replace rule of     *)
(* insert_measurement.  A timestamp is a naive datetime; SQLite stores and *)
(* compares it as the text of datetime.isoformat(" "), which has a         *)
(* fractional part only when microsecond is not 0.                         *)

MaxInserts == 3
Hours == {0, 1}
LastSecond == 3599
HalfSecond == 500000
Resorts == {"winter_park", "snowbird"}

\* Start of an hour, last whole second of an hour, and half a second later.
Timestamps ==
    {[hour |-> h, second |-> sm[1], microsecond |-> sm[2]] :
        h \in Hours,
        sm \in {<<0, 0>>, <<LastSecond, 0>>, <<LastSecond, HalfSecond>>}}

\* The text SQLite compares: "YYYY-MM-DD HH", "MM:SS" and the fraction, if any.
Iso(t) ==
    <<t.hour, t.second, IF t.microsecond = 0 THEN <<>> ELSE <<t.microsecond>>>>

\* Text comparison a <= b: a proper prefix sorts first.
TextLe(a, b) ==
    \/ a[1] < b[1]
    \/ /\ a[1] = b[1]
       /\ \/ a[2] < b[2]
          \/ /\ a[2] = b[2]
             /\ \/ a[3] = <<>>
                \/ b[3] # <<>> /\ a[3][1] <= b[3][1]

\* timestamp.replace(minute=0, second=0, microsecond=0)
HourStart(t) == [hour |-> t.hour, second |-> 0, microsecond |-> 0]
\* hour_start.replace(minute=59, second=59)
HourEnd(t) == [hour |-> t.hour, second |-> LastSecond, microsecond |-> 0]

\* The rows get_measurement_for_hour's SELECT matches (LIMIT 1 returns
\* any one of them).
HourMatches(rows, resort, t) ==
    {r \in rows : /\ r.resort = resort
                  /\ TextLe(Iso(HourStart(t)), Iso(r.timestamp))
                  /\ TextLe(Iso(r.timestamp), Iso(HourEnd(t)))}

StoreInit ==
    /\ MeasIdle
    /\ ScanIdle
    /\ HourlyIdle
    /\ DriverIdle
    /\ VersionsIdle
    /\ snow_measurements = {}
    /\ measurement_samples = {}
    /\ lastrowid = 0
    /\ last_call = [resort |-> "none", timestamp |-> <<>>, id |-> 0, all_replace |-> TRUE]

StoreFrame == UNCHANGED <<convVars, measVars, driverVars, versionVars, scanVars, hourlyVars>>

\* delete_measurement (when existing is a row), then INSERT OR REPLACE
\* (which drops a row with the same resort and timestamp, but not its
\* samples), then the sample rows.
InsertRows(existing, resort, t, has_samples) ==
    LET kept == {r \in snow_measurements \ existing :
                    ~(r.resort = resort /\ Iso(r.timestamp) = Iso(t))}
        kept_samples == measurement_samples \ {r.id : r \in existing}
    IN  /\ lastrowid' = lastrowid + 1
        /\ snow_measurements' =
              kept \cup {[id |-> lastrowid + 1, resort |-> resort, timestamp |-> t]}
        /\ measurement_samples' =
              IF has_samples THEN kept_samples \cup {lastrowid + 1} ELSE kept_samples

\* insert_measurement(resort, timestamp, ..., sample_data, replace_hourly)
\* that does not raise.
InsertMeasurement ==
    /\ lastrowid < MaxInserts
    /\ \E resort \in Resorts, t \in Timestamps, has_samples \in BOOLEAN, replace_hourly \in BOOLEAN :
          LET found == HourMatches(snow_measurements, resort, t)
          IN  /\ \/ /\ found = {}
                    /\ InsertRows({}, resort, t, has_samples)
                 \/ /\ replace_hourly
                    /\ \E existing \in found : InsertRows({existing}, resort, t, has_samples)
              /\ last_call' = [resort |-> resort, timestamp |-> t, id |-> lastrowid + 1,
                               all_replace |-> last_call.all_replace /\ replace_hourly]
    /\ StoreFrame

\* insert_measurement with replace_hourly=False for an hour that has a
\* measurement: ValueError, nothing is written.
InsertRefused ==
    /\ lastrowid < MaxInserts
    /\ \E resort \in Resorts, t \in Timestamps :
          /\ HourMatches(snow_measurements, resort, t) # {}
          /\ last_call' = [resort |-> resort, timestamp |-> t, id |-> 0, all_replace |-> FALSE]
    /\ UNCHANGED <<snow_measurements, measurement_samples, lastrowid>>
    /\ StoreFrame

StoreNext == InsertMeasurement \/ InsertRefused

SpecStore == StoreInit /\ [][StoreNext]_vars

\* C19: after insert_measurement calls with replace_hourly=True on an
\* empty store, there is at most one measurement per (resort, clock hour),
\* the measurement of the last call is the one stored for its hour, and
\* no sample rows of a removed measurement are left.
C19_HourlyReplace ==
    last_call.all_replace =>
        /\ \A r1, r2 \in snow_measurements :
              (r1.resort = r2.resort /\ r1.timestamp.hour = r2.timestamp.hour) => r1 = r2
        /\ last_call.id # 0 =>
              [id |-> last_call.id, resort |-> last_call.resort,
               timestamp |-> last_call.timestamp] \in snow_measurements
        /\ measurement_samples \subseteq {r.id : r \in snow_measurements}

----------------------------------------------------------------------------
(* SnowDatabase: calibration versions with effective date ranges.          *)

MaxSaves == 3
NoTime == [hour |-> -1, second |-> 0, microsecond |-> 0]
NoneConfig == [name |-> "None", keys |-> "str"]
NoLookup == [resort |-> "none", timestamp |-> NoTime, answer |-> NoneConfig]

\* Configs: json.dumps turns the integer keys of marker_positions into
\* strings, json.loads leaves them strings.
Configs == [name : {"c1", "c2"}, keys : {"int", "str"}]
Dumps(config) == [config EXCEPT !.keys = "str"]
Loads(config_json) == config_json

VersionTimes == {t \in Timestamps : t.second = 0 \/ t.microsecond # 0}

TextLt(a, b) == TextLe(a, b) /\ a # b

VersionsInit ==
    /\ MeasIdle
    /\ ScanIdle
    /\ HourlyIdle
    /\ DriverIdle
    /\ StoreIdle
    /\ calibration_versions = {}
    /\ version_id = 0
    /\ lookup = NoLookup

VersionsFrame == UNCHANGED <<convVars, measVars, driverVars, storeVars, scanVars, hourlyVars>>

\* UPDATE calibration_versions SET effective_to = ? WHERE resort = ? AND
\* effective_from < ? AND (effective_to IS NULL OR effective_to > ?)
CloseOverlapping(rows, resort, effective_from) ==
    {IF /\ r.resort = resort
        /\ TextLt(Iso(r.effective_from), Iso(effective_from))
        /\ (r.effective_to = NoTime \/ TextLt(Iso(effective_from), Iso(r.effective_to)))
     THEN [r EXCEPT !.effective_to = effective_from]
     ELSE r : r \in rows}

\* save_calibration_version(resort, effective_from, config)
SaveCalibrationVersion ==
    /\ version_id < MaxSaves
    /\ \E resort \in Resorts, effective_from \in VersionTimes, config \in Configs :
          calibration_versions' =
              CloseOverlapping(calibration_versions, resort, effective_from)
                  \cup {[id |-> version_id + 1, resort |-> resort,
                         effective_from |-> effective_from, effective_to |-> NoTime,
                         config_json |-> Dumps(config)]}
    /\ version_id' = version_id + 1
    /\ lookup' = NoLookup
    /\ VersionsFrame

\* Alternative: the WHERE clause without "resort = ?".
Eligible_any_resort(rows, resort, t) ==
    {r \in rows :
        /\ TextLe(Iso(r.effective_from), Iso(t))
        /\ (r.effective_to = NoTime \/ TextLt(Iso(t), Iso(r.effective_to)))}

\* WHERE resort = ? AND effective_from <= ? AND
\* (effective_to IS NULL OR effective_to > ?)
Eligible(rows, resort, t) ==
    {r \in rows :
        /\ r.resort = resort
        /\ TextLe(Iso(r.effective_from), Iso(t))
        /\ (r.effective_to = NoTime \/ TextLt(Iso(t), Iso(r.effective_to)))}

\* ORDER BY effective_from DESC, id DESC LIMIT 1
FirstRow(rows) ==
    CHOOSE r \in rows :
        \A q \in rows :
            \/ TextLt(Iso(q.effective_from), Iso(r.effective_from))
            \/ Iso(q.effective_from) = Iso(r.effective_from) /\ q.id <= r.id

get_calibration_for_timestamp(rows, resort, t) ==
    IF Eligible(rows, resort, t) = {} THEN NoneConfig
    ELSE Loads(FirstRow(Eligible(rows, resort, t)).config_json)

GetCalibrationForTimestamp ==
    /\ \E resort \in Resorts, t \in VersionTimes :
          lookup' = [resort |-> resort, timestamp |-> t,
                     answer |-> get_calibration_for_timestamp(calibration_versions, resort, t)]
    /\ UNCHANGED <<calibration_versions, version_id>>
    /\ VersionsFrame

VersionsNext == SaveCalibrationVersion \/ GetCalibrationForTimestamp

SpecVersions == VersionsInit /\ [][VersionsNext]_vars

\* Chronological order of two timestamps.
Seconds(t) == t.hour * (LastSecond + 1) + t.second
Before(a, b) ==
    \/ Seconds(a) < Seconds(b)
    \/ Seconds(a) = Seconds(b) /\ a.microsecond < b.microsecond
NotAfter(a, b) == a = b \/ Before(a, b)

\* The records of the looked-up resort that are in force at the timestamp.
InForce ==
    {r \in calibration_versions :
        /\ r.resort = lookup.resort
        /\ NotAfter(r.effective_from, lookup.timestamp)
        /\ (r.effective_to = NoTime \/ Before(lookup.timestamp, r.effective_to))}

\* C20: get_calibration_for_timestamp(resort, t) answers with the config of
\* a record of that resort with the greatest effective_from among those
\* with effective_from <= t and effective_to null or > t, and with None
\* when there is no such record; other resorts' records play no part.
C20_TimeRangedLookup ==
    lookup # NoLookup =>
        IF InForce = {} THEN lookup.answer = NoneConfig
        ELSE \E r \in InForce :
                /\ \A q \in InForce : NotAfter(q.effective_from, r.effective_from)
                /\ lookup.answer = r.config_json

\* A lookup answered while two records of the resort are in force and a
\* record of the other resort with a later effective_from is in force too.
C20_Witness ==
    /\ lookup # NoLookup
    /\ \E r1, r2 \in InForce : Before(r1.effective_from, r2.effective_from)
    /\ \E o \in calibration_versions :
          /\ o.resort # lookup.resort
          /\ NotAfter(o.effective_from, lookup.timestamp)
          /\ \A r \in InForce : Before(r.effective_from, o.effective_from)
          /\ o.config_json # lookup.answer

\* The versions of a resort in force at a timestamp.
InForceAt(resort, t) ==
    {r \in calibration_versions :
        /\ r.resort = resort
        /\ NotAfter(r.effective_from, t)
        /\ (r.effective_to = NoTime \/ Before(t, r.effective_to))}

\* C21: after any sequence of save_calibration_version calls no two
\* versions of a resort overlap: at every timestamp at most one version of
\* the resort has effective_from <= t and effective_to null or > t.
C21_NoOverlap ==
    \A resort \in Resorts : \A t \in VersionTimes :
        Cardinality(InForceAt(resort, t)) <= 1

\* C22: every returned sample classified at_base is invalid, has depth 0.0
\* and keeps its detected row.
C22_AtBaseSamples ==
    (pc = "done" /\ result.status = "returned" /\ result.has_samples) =>
        \A i \in 1..Len(result.samples) :
            result.samples[i].skip_reason = "at_base" =>
                /\ ~result.samples[i].valid
                /\ result.samples[i].depth_inches = RatInt(0)
                /\ result.samples[i].snow_line_y # NoneY

\* C23: in every returned result that carries samples, depth_min, depth_max
\* and depth_avg are the minimum, maximum and mean of depth_inches over the
\* samples that are valid in the returned list, and None when there is no
\* such sample.
C23_StatsOfValidSamples ==
    (pc = "done" /\ result.status = "returned" /\ result.has_samples) =>
        /\ result.depth_min = DepthMin(result.samples)
        /\ result.depth_max = DepthMax(result.samples)
        /\ result.depth_avg = DepthAvg(result.samples)

----------------------------------------------------------------------------
(* The gradient pass of detect_snow_line over one smoothed sample column.   *)
(* A column is its height and, per row index, what the three tests of the   *)
(* pass say: |gradient[i]| > 3.0, brightness change > 15 over the +/-5-row  *)
(* window, and a snow-like patch below.                                     *)

MaxSteep == 2
ColumnHeights == {10, 12, 20, 120}

\* Row indices around the ends of the scanned range.
KeyRows(h) ==
    {r \in {1, 9, 10, 11, h \div 10, h \div 10 + 1, (9 * h) \div 10 - 1, (9 * h) \div 10,
            h - 2, h - 1} : r >= 0 /\ r < h}

\* Up to MaxSteep rows with a steep gradient.
Steeps(h) == {T \in SUBSET KeyRows(h) : Cardinality(T) <= MaxSteep}

\* The later tests are made only on rows that passed the earlier ones.
Columns ==
    UNION {UNION {{[column_height |-> h, steep |-> S, changed |-> C, snow_below |-> B] :
                      C \in SUBSET S, B \in SUBSET S} :
                  S \in Steeps(h)} :
           h \in ColumnHeights}

\* range(column_height - 2, max(10, int(column_height * 0.1)), -1), with the
\* last 10% of the column left out as well.
WP_gradient_range_inner(h) ==
    {i \in 0..(h - 1) : i <= h - 2 /\ 10 * i < 9 * h /\ i > Max2(10, h \div 10)}

\* range(column_height - 2, max(10, int(column_height * 0.1)), -1)
WP_gradient_range(h) ==
    {i \in 0..(h - 1) : i <= h - 2 /\ i > Max2(10, h \div 10)}

\* The rows of the range that pass the three tests.
WP_gradient_candidates(col) ==
    {i \in WP_gradient_range(col.column_height) :
        i \in col.steep /\ i \in col.changed /\ i \in col.snow_below}

\* The loop breaks at the first candidate met from the base upward.
WP_gradient_pass(col) ==
    IF WP_gradient_candidates(col) = {}
    THEN NoneY
    ELSE CHOOSE i \in WP_gradient_candidates(col) :
            \A j \in WP_gradient_candidates(col) : j <= i

ScanInit ==
    /\ MeasIdle
    /\ HourlyIdle
    /\ DriverIdle
    /\ StoreIdle
    /\ VersionsIdle
    /\ column \in Columns
    /\ snow_line_idx = NoneY
    /\ scanPc = "scan"

\* for i in range(...): ... break; then "if snow_line_idx is None" decides
\* whether the fallback pass runs.
GradientPass ==
    /\ scanPc = "scan"
    /\ snow_line_idx' = WP_gradient_pass(column)
    /\ scanPc' = IF WP_gradient_pass(column) = NoneY THEN "fallback" ELSE "found"
    /\ UNCHANGED <<column, convVars, measVars, driverVars, storeVars, versionVars, hourlyVars>>

ScanNext == GradientPass

SpecScan == ScanInit /\ [][ScanNext]_vars

\* A row that passes the three tests of the gradient pass.
Qualifies(i) == i \in column.steep /\ i \in column.changed /\ i \in column.snow_below

\* C24: every row index i accepted by the gradient pass of a column of height
\* h satisfies 0.1*h < i < 0.9*h and is the closest to the base among the
\* rows that pass the three tests.
C24_GradientInner ==
    scanPc = "found" =>
        /\ 10 * snow_line_idx > column.column_height
        /\ 10 * snow_line_idx < 9 * column.column_height
        /\ Qualifies(snow_line_idx)

\* C24 (amended): every accepted row index i satisfies
\* max(10, int(0.1*h)) < i <= h - 2, passes the three tests, and no row of
\* that range nearer to the base passes them; the pass accepts nothing only
\* when no row of the range passes them.
C24_GradientRange ==
    /\ scanPc = "found" =>
          /\ snow_line_idx > Max2(10, column.column_height \div 10)
          /\ 10 * snow_line_idx > column.column_height
          /\ snow_line_idx <= column.column_height - 2
          /\ Qualifies(snow_line_idx)
          /\ \A j \in (snow_line_idx + 1)..(column.column_height - 2) : ~Qualifies(j)
    /\ scanPc = "fallback" =>
          \A j \in (Max2(10, column.column_height \div 10) + 1)..(column.column_height - 2) :
              ~Qualifies(j)

\* A row in the last 10% of the column is accepted while a row further up
\* passes the tests too.
C24_Witness ==
    /\ scanPc = "found"
    /\ 10 * snow_line_idx >= 9 * column.column_height
    /\ \E j \in 0..(snow_line_idx - 1) :
          Qualifies(j) /\ j > Max2(10, column.column_height \div 10)

----------------------------------------------------------------------------
(* Measurement calls on images of several heights: the calibrated stake    *)
(* region may reach below a smaller image.                                  *)

ImageHeights == {200, 290, 291, ImageHeight}

SplitImages(O, rb_diff10, stake) ==
    {Image([i \in 1..NumSamples |-> IF i <= j THEN a ELSE b], rb_diff10, stake) :
        j \in 0..NumSamples, a \in O, b \in O}

OfHeight(imgs) == {[img EXCEPT !.height = h] : img \in imgs, h \in ImageHeights}

HeightsInit ==
    /\ CallStart
    /\ \/ /\ measurer = "WP"
          /\ calibration \in WP_Calibrations
          /\ instance = <<>>
          /\ image \in OfHeight(UNION {SplitImages(WP_Outcomes, d, TRUE) : d \in NearGrayDiffs10}
                                \cup SplitImages(WP_Outcomes, ColourDiff10, TRUE))
                        \cup UnreadableImages
       \/ /\ measurer = "SS"
          /\ calibration \in SS_Calibrations
          /\ instance = SS_new
          /\ image \in OfHeight(UNION {SplitImages(calibration.outcomes, ColourDiff10, st) :
                                          st \in BOOLEAN})
                        \cup UnreadableImages

SpecHeights == HeightsInit /\ [][Next]_vars

\* The sample list of a WinterParkMeasurer call has been built.
WP_Sampled == measurer = "WP" /\ pc \in {"detected", "done"} /\ Len(samples) = NumSamples

\* C25: for every image height and stake region the stored base_y of every
\* sample satisfies scan_top + 10 <= base_y <= image_height - 1.
C25_BaseWithinImage ==
    WP_Sampled =>
        \A i \in 1..NumSamples :
            /\ samples[i].base_y >= WP_scan_top_y(calibration) + 10
            /\ samples[i].base_y <= image.height - 1

\* C25 (amended): the stored base_y is at least scan_top + 10 for every
\* image height; it is at most image_height - 1 whenever
\* scan_top + 10 <= image_height - 1, and it is scan_top + 10 otherwise.
C25_BaseClamped ==
    WP_Sampled =>
        \A i \in 1..NumSamples :
            /\ samples[i].base_y >= WP_scan_top_y(calibration) + 10
            /\ WP_scan_top_y(calibration) + 10 <= image.height - 1
                    => samples[i].base_y <= image.height - 1
            /\ WP_scan_top_y(calibration) + 10 > image.height - 1
                    => samples[i].base_y = WP_scan_top_y(calibration) + 10

\* The stake region starts less than 10 rows above the last image row.
C25_Witness ==
    /\ WP_Sampled
    /\ pc = "done"
    /\ WP_scan_top_y(calibration) + 10 > image.height - 1
    /\ samples[1].base_y = WP_scan_top_y(calibration) + 10

----------------------------------------------------------------------------
(* The cron driver's choice of images: find_hourly_images, and the rows    *)
(* process_resort inserts for the images it returns.                        *)

MaxFiles == 3
Minutes == {0, 1, 2}
FileSeconds == {0, 36}

\* <prefix>_YYYYMMDD_HHMMSS.jpg of one day, by its HH, MM and SS.
FileNames == [hour : Hours, minute : Minutes, second : FileSeconds]

\* re.search(r'_(\d{8})_(\d{2})(0[01])(\d{2})\.jpg$', basename)
IsHourly(f) == f.minute \in {0, 1}

\* Order of the file names as text.
NameLt(f, g) ==
    \/ f.hour < g.hour
    \/ f.hour = g.hour /\ f.minute < g.minute
    \/ f.hour = g.hour /\ f.minute = g.minute /\ f.second < g.second

\* sorted(files)
RECURSIVE SortedNames(_)
SortedNames(files) ==
    IF files = {} THEN <<>>
    ELSE LET first == CHOOSE f \in files : \A g \in files \ {f} : NameLt(f, g)
         IN  <<first>> \o SortedNames(files \ {first})

\* find_hourly_images(resort_config, images_dir)
find_hourly_images(files) == SortedNames({f \in files : IsHourly(f)})

\* extract_timestamp(image_path)
extract_timestamp(f) ==
    [hour |-> f.hour, second |-> 60 * f.minute + f.second, microsecond |-> 0]

\* INSERT OR IGNORE INTO snow_measurements: UNIQUE(resort, timestamp).
InsertOrIgnore(rows, id, resort, t) ==
    IF \E r \in rows : r.resort = resort /\ Iso(r.timestamp) = Iso(t)
    THEN rows
    ELSE rows \cup {[id |-> id, resort |-> resort, timestamp |-> t]}

HourlyInit ==
    /\ MeasIdle
    /\ ScanIdle
    /\ DriverIdle
    /\ VersionsIdle
    /\ snow_measurements = {}
    /\ measurement_samples = {}
    /\ lastrowid = 0
    /\ last_call = [resort |-> "winter_park", timestamp |-> <<>>, id |-> 0, all_replace |-> TRUE]
    /\ image_files \in {F \in SUBSET FileNames : Cardinality(F) <= MaxFiles}
    /\ hourly_images = <<>>
    /\ hourlyPc = "start"

HourlyFrame ==
    UNCHANGED <<convVars, measVars, versionVars, scanVars, resort_config, new_images,
                attempted, inserted, prPc, measurement_samples, last_call, image_files>>

\* hourly_images = find_hourly_images(resort_config, IMAGES_DIR); no row of
\* the resort exists yet, so every image is new.
FindHourlyImages ==
    /\ hourlyPc = "start"
    /\ hourly_images' = find_hourly_images(image_files)
    /\ img_index' = 1
    /\ hourlyPc' = "found"
    /\ UNCHANGED <<snow_measurements, lastrowid>>
    /\ HourlyFrame

\* One iteration of "for img_path in new_images" whose measurement returns
\* a result: INSERT OR IGNORE.
PR_InsertImage ==
    /\ hourlyPc = "found"
    /\ img_index <= Len(hourly_images)
    /\ snow_measurements' =
          InsertOrIgnore(snow_measurements, lastrowid + 1, last_call.resort,
                         extract_timestamp(hourly_images[img_index]))
    /\ lastrowid' = IF snow_measurements' = snow_measurements THEN lastrowid ELSE lastrowid + 1
    /\ img_index' = img_index + 1
    /\ UNCHANGED <<hourly_images, hourlyPc>>
    /\ HourlyFrame

\* One iteration whose measurement returns None or raises: no row.
PR_SkipImage ==
    /\ hourlyPc = "found"
    /\ img_index <= Len(hourly_images)
    /\ img_index' = img_index + 1
    /\ UNCHANGED <<hourly_images, hourlyPc, snow_measurements, lastrowid>>
    /\ HourlyFrame

\* return added
PR_HourlyReturn ==
    /\ hourlyPc = "found"
    /\ img_index > Len(hourly_images)
    /\ hourlyPc' = "done"
    /\ UNCHANGED <<hourly_images, img_index, snow_measurements, lastrowid>>
    /\ HourlyFrame

HourlyNext == FindHourlyImages \/ PR_InsertImage \/ PR_SkipImage \/ PR_HourlyReturn

SpecHourly == HourlyInit /\ [][HourlyNext]_vars

\* C26: find_hourly_images returns at most one image per (date, hour), and
\* after process_resort has run the rows it inserted hold at most one
\* measurement per resort per clock hour.
C26_OnePerHour ==
    /\ hourlyPc \in {"found", "done"} =>
          \A i, j \in 1..Len(hourly_images) :
              hourly_images[i].hour = hourly_images[j].hour => i = j
    /\ hourlyPc = "done" =>
          \A r1, r2 \in snow_measurements :
              (r1.resort = r2.resort /\ r1.timestamp.hour = r2.timestamp.hour) => r1 = r2

----------------------------------------------------------------------------
(* The IQR step cannot empty the valid set.                                 *)

\* valid_snow_lines of the call, before the IQR step.
Candidates == IF measurer = "WP" THEN WP_candidates(samples) ELSE SS_candidates(samples)
MinCandidates == IF measurer = "WP" THEN WP_MinValid ELSE SS_MinValid

ValidIn(list) == {i \in 1..Len(list) : list[i].valid}

Convertible == measurer = "WP" \/ SS_y_to_inches(Self, calibration, 0) # NoneD

ValidState(s) ==
    s.valid /\ s.skip_reason = NoReason /\ s.snow_line_y # NoneY /\ s.depth_inches # NoneD
InvalidState(s) == ~s.valid /\ s.skip_reason # NoReason

\* C28: a returned sample list has exactly 10 samples with indices 0..9, and
\* each sample is either valid (no skip_reason, snow_line_y and depth_inches
\* set) or invalid with a skip_reason.
C28_SampleStates ==
    (pc = "done" /\ result.status = "returned" /\ result.has_samples) =>
        /\ Len(result.samples) = NumSamples
        /\ \A i \in 1..Len(result.samples) :
              /\ result.samples[i].sample_index = i - 1
              /\ ValidState(result.samples[i]) \/ InvalidState(result.samples[i])

----------------------------------------------------------------------------
(* The store under cron-driver inserts and the re-measure endpoints.        *)

\* Timestamps of images the cron driver measures: one per hourly minute.
CronTimestamps ==
    {extract_timestamp(f) : f \in {g \in FileNames : IsHourly(g) /\ g.second # 0}}

\* The resort whose calibration.json enables the cron driver.
CronResorts == {"winter_park"}

\* process_resort: INSERT OR IGNORE of one measured image.
CronInsert ==
    /\ lastrowid < MaxInserts
    /\ \E resort \in CronResorts, t \in CronTimestamps :
          /\ snow_measurements' = InsertOrIgnore(snow_measurements, lastrowid + 1, resort, t)
          /\ snow_measurements' # snow_measurements
    /\ lastrowid' = lastrowid + 1
    /\ UNCHANGED <<measurement_samples, last_call>>
    /\ StoreFrame

\* db.delete_measurement(measurement_id)
delete_measurement(rows, id) == {r \in rows : r.id # id}

\* The rows after insert_measurement(resort, timestamp, replace_hourly=True)
\* on the rows given, when the hourly lookup returns existing (a set of at
\* most one row).
insert_replacing(rows, existing, id, resort, t) ==
    {r \in rows \ existing : ~(r.resort = resort /\ Iso(r.timestamp) = Iso(t))}
        \cup {[id |-> id, resort |-> resort, timestamp |-> t]}

\* The lookup results get_measurement_for_hour may give (LIMIT 1).
Lookups(rows, resort, t) ==
    IF HourMatches(rows, resort, t) = {} THEN {{}}
    ELSE {{r} : r \in HourMatches(rows, resort, t)}

\* A re-measure request for the stored measurement target that succeeds:
\* db.delete_measurement(measurement_id), then db.insert_measurement with
\* the row's resort and timestamp and replace_hourly=True.
RemeasureOf(target) ==
    /\ lastrowid < MaxInserts
    /\ target \in snow_measurements
    /\ \E has_samples \in BOOLEAN :
       \E existing \in Lookups(delete_measurement(snow_measurements, target.id),
                                target.resort, target.timestamp) :
          /\ snow_measurements' =
                insert_replacing(delete_measurement(snow_measurements, target.id), existing,
                                 lastrowid + 1, target.resort, target.timestamp)
          /\ measurement_samples' =
                ((measurement_samples \ {target.id}) \ {r.id : r \in existing})
                    \cup (IF has_samples THEN {lastrowid + 1} ELSE {})
    /\ lastrowid' = lastrowid + 1
    /\ UNCHANGED last_call
    /\ StoreFrame

Remeasure == \E target \in snow_measurements : RemeasureOf(target)

RemeasureNext == InsertMeasurement \/ InsertRefused \/ CronInsert \/ Remeasure

SpecRemeasure == StoreInit /\ [][RemeasureNext]_vars

\* C29: re-measuring one stored measurement leaves every other stored
\* measurement unchanged and does not change the number of stored
\* measurements.
C29_RemeasureOnlyTarget ==
    [][\A target \in snow_measurements :
          RemeasureOf(target) =>
              /\ \A r \in snow_measurements \ {target} : r \in snow_measurements'
              /\ Cardinality(snow_measurements') = Cardinality(snow_measurements)]_vars

----------------------------------------------------------------------------
(* Inserts that raise after the hourly lookup: json.dumps(sample_data)      *)
(* fails on a value that is not JSON serialisable, after delete_measurement *)
(* has committed on a connection of its own.                                *)

\* insert_measurement(resort, t, ..., replace_hourly=True) that raises in
\* json.dumps, the hourly lookup having returned existing.
InsertFailsOf(resort, t, existing) ==
    /\ existing \in Lookups(snow_measurements, resort, t)
    /\ snow_measurements' = snow_measurements \ existing
    /\ measurement_samples' = measurement_samples \ {r.id : r \in existing}
    /\ UNCHANGED <<lastrowid, last_call>>
    /\ StoreFrame

InsertFails ==
    \E resort \in Resorts, t \in Timestamps :
        \E existing \in Lookups(snow_measurements, resort, t) :
            InsertFailsOf(resort, t, existing)

\* A re-measure request whose insert_measurement raises in json.dumps.
RemeasureFailsOf(target) ==
    /\ target \in snow_measurements
    /\ \E existing \in Lookups(delete_measurement(snow_measurements, target.id),
                                target.resort, target.timestamp) :
          /\ snow_measurements' = delete_measurement(snow_measurements, target.id) \ existing
          /\ measurement_samples' =
                (measurement_samples \ {target.id}) \ {r.id : r \in existing}
    /\ UNCHANGED <<lastrowid, last_call>>
    /\ StoreFrame

RemeasureFails == \E target \in snow_measurements : RemeasureFailsOf(target)

FailingNext == InsertMeasurement \/ InsertFails \/ RemeasureFails

SpecFailing == StoreInit /\ [][FailingNext]_vars

\* C30: when the insert step of insert_measurement or of a re-measure
\* request raises after the hourly lookup, the measurement stored for that
\* hour before the call is still stored afterwards.
C30_AllOrNothing ==
    [][/\ \A resort \in Resorts, t \in Timestamps :
            \A existing \in Lookups(snow_measurements, resort, t) :
                InsertFailsOf(resort, t, existing) => existing \subseteq snow_measurements'
       /\ \A target \in snow_measurements :
            RemeasureFailsOf(target) => target \in snow_measurements']_vars
====
